---- MODULE Spec2Model ----
(***************************************************************************)
(* Quorum front end: the event-sourced store (zustand slices) that the     *)
(* stream dispatcher handleStreamEvent drives.  One action per case of     *)
(* the dispatcher's switch; the slice operations it calls are operators    *)
(* from a store record to a store record, so that a handler's stale        *)
(* snapshot `state = get()` and the live store that `set` updates are      *)
(* kept apart exactly as in the source.  lastEventType and lastEventTime,   *)
(* which every event overwrites and nothing reads, are left out.           *)
(***************************************************************************)
EXTENDS Integers, Sequences, FiniteSets, TLC

(***************************************************************************)
(* Bounds of the model.                                                    *)
(***************************************************************************)
MaxContentLen == 5   \* longest message content an event may produce
MaxGenAgents == 1    \* agents created by delegation (generated ids)
MaxMessages == 2     \* Messages created by stream tokens
MaxTools == 2        \* ToolUsage entries in the Message store

(***************************************************************************)
(* Payload alphabets.  None stands for an absent (undefined) field; the    *)
(* empty string is JavaScript's falsy string.                              *)
(***************************************************************************)
None == "none"
AgentIds == {"agent1", "agent2"}
AgentTypes == {"claude-sonnet-3.5", "gpt-5"}
TypeOf(a) == IF a = "agent1" THEN "claude-sonnet-3.5" ELSE "gpt-5"
AgentStatus == {"idle", "thinking", "responding", "complete", "error"}
MessageIds == {"m1", "m2"}
ConvIds == {"c1", "c2"}
ToolStatus == {"pending", "complete", "error"}

VARIABLES
  agents,              \* agentsSlice: [byId, allIds]
  messages,            \* messagesSlice: [byId, allIds]
  agentConversations,  \* conversationSlice: list of ConversationRound
  conversationId,      \* conversationSlice
  isProcessing,        \* uiSlice
  error,               \* uiSlice
  isStreaming,         \* streamSlice
  streamingMessageId,  \* streamSlice
  sessionStorage,      \* browser sessionStorage, per conversation id
  agentSeq,            \* number of agent ids generated so far (freshness)
  msgSeq,              \* number of message ids generated so far (freshness)
  trace,               \* history: the events so far, while they follow a scenario
  ended,               \* history: the stream-ending events since the last init
  finished,            \* history: the agents that have been complete or error
  service              \* the WebSocketService and the sockets it has created

vars == <<agents, messages, agentConversations, conversationId, isProcessing,
          error, isStreaming, streamingMessageId,
          sessionStorage, agentSeq, msgSeq, trace, ended, finished, service>>

(***************************************************************************)
(* The store as one value: get() of zustand.                               *)
(***************************************************************************)
storeVars == <<agents, messages, agentConversations, conversationId,
               isProcessing, error, isStreaming, streamingMessageId,
               sessionStorage, agentSeq, msgSeq, trace, ended, finished>>

get ==
  [agents |-> agents, messages |-> messages,
   agentConversations |-> agentConversations,
   conversationId |-> conversationId, isProcessing |-> isProcessing,
   error |-> error, isStreaming |-> isStreaming,
   streamingMessageId |-> streamingMessageId,
   sessionStorage |-> sessionStorage,
   agentSeq |-> agentSeq, msgSeq |-> msgSeq]

\* the store after a handler has run
Store(s) ==
  /\ agents' = s.agents
  /\ messages' = s.messages
  /\ agentConversations' = s.agentConversations
  /\ conversationId' = s.conversationId
  /\ isProcessing' = s.isProcessing
  /\ error' = s.error
  /\ isStreaming' = s.isStreaming
  /\ streamingMessageId' = s.streamingMessageId
  /\ sessionStorage' = s.sessionStorage
  /\ agentSeq' = s.agentSeq
  /\ msgSeq' = s.msgSeq

(***************************************************************************)
(* sessionStorage: one slot per key kind and conversation id; <<>> is a    *)
(* missing key, <<v>> a stored value.  Nothing is stored under the empty   *)
(* conversation id.                                                        *)
(***************************************************************************)
EmptyNormalized == [byId |-> [i \in {} |-> None], allIds |-> <<>>]
EmptySlot == [messages |-> <<>>, agentConversations |-> <<>>, agents |-> <<>>]

saveAgentsToSession(s, updatedAgents) ==
  IF s.conversationId = "" THEN s.sessionStorage
  ELSE [s.sessionStorage EXCEPT ![s.conversationId].agents = <<updatedAgents>>]

saveMessagesToSession(s, updatedMessages) ==
  IF s.conversationId = "" THEN s.sessionStorage
  ELSE [s.sessionStorage EXCEPT ![s.conversationId].messages = <<updatedMessages>>]

saveAgentConversationsToSession(s, rounds) ==
  IF s.conversationId = "" THEN s.sessionStorage
  ELSE [s.sessionStorage EXCEPT ![s.conversationId].agentConversations = <<rounds>>]

(***************************************************************************)
(* agentsSlice                                                             *)
(***************************************************************************)
generateAgentId(type, k) == type \o "_" \o ToString(k)

\* the id addAgent returns
addAgentId(s, agent) ==
  IF agent.agentId # None THEN agent.agentId
  ELSE generateAgentId(agent.agentType, s.agentSeq + 1)

\* variant: addAgent without the test for an existing agent
addAgent_again(s, agent) ==
  LET id == addAgentId(s, agent)
      seq == IF agent.agentId # None THEN s.agentSeq ELSE s.agentSeq + 1
      newAgent == [agentType |-> agent.agentType,
                   status |-> agent.status,
                   currentMessage |-> agent.currentMessage,
                   progress |-> agent.progress,
                   endTime |-> 0]
      updatedAgents ==
        [byId |-> [i \in DOMAIN s.agents.byId \cup {id} |->
                     IF i = id THEN newAgent ELSE s.agents.byId[i]],
         allIds |-> Append(s.agents.allIds, id)]
  IN [s EXCEPT !.agents = updatedAgents,
               !.agentSeq = seq,
               !.sessionStorage = saveAgentsToSession(s, updatedAgents)]

addAgent(s, agent) ==
  LET id == addAgentId(s, agent)
      seq == IF agent.agentId # None THEN s.agentSeq ELSE s.agentSeq + 1
  IN IF id \in DOMAIN s.agents.byId THEN [s EXCEPT !.agentSeq = seq]
     ELSE LET newAgent == [agentType |-> agent.agentType,
                           status |-> agent.status,
                           currentMessage |-> agent.currentMessage,
                           progress |-> agent.progress,
                           endTime |-> 0]
              updatedAgents ==
                [byId |-> [i \in DOMAIN s.agents.byId \cup {id} |->
                             IF i = id THEN newAgent ELSE s.agents.byId[i]],
                 allIds |-> Append(s.agents.allIds, id)]
          IN [s EXCEPT !.agents = updatedAgents,
                       !.agentSeq = seq,
                       !.sessionStorage = saveAgentsToSession(s, updatedAgents)]

\* endTime is a timestamp (new Date()): 0 is unset, 1 the first time written,
\* 2 any later time, which differs from the first.
Stamp(t) == IF t = 0 THEN 1 ELSE 2

updateAgent(s, id, updates) ==
  IF id \notin DOMAIN s.agents.byId THEN s
  ELSE LET agent == s.agents.byId[id]
           merged == [f \in DOMAIN agent |->
                        IF f \in DOMAIN updates THEN updates[f] ELSE agent[f]]
           updatedAgent ==
             IF "status" \in DOMAIN updates
                /\ updates.status \in {"complete", "error"}
             THEN [merged EXCEPT !.endTime = Stamp(agent.endTime)]
             ELSE merged
           updatedAgents == [s.agents EXCEPT !.byId[id] = updatedAgent]
       IN [s EXCEPT !.agents = updatedAgents,
                    !.sessionStorage = saveAgentsToSession(s, updatedAgents)]

\* variant: removeAgent leaves the list of ids as it is
removeAgent_listKept(s, id) ==
  LET updatedAgents ==
        [byId |-> [i \in DOMAIN s.agents.byId \ {id} |-> s.agents.byId[i]],
         allIds |-> s.agents.allIds]
  IN [s EXCEPT !.agents = updatedAgents,
               !.sessionStorage = saveAgentsToSession(s, updatedAgents)]

removeAgent(s, id) ==
  LET updatedAgents ==
        [byId |-> [i \in DOMAIN s.agents.byId \ {id} |-> s.agents.byId[i]],
         allIds |-> SelectSeq(s.agents.allIds, LAMBDA agentId : agentId # id)]
  IN [s EXCEPT !.agents = updatedAgents,
               !.sessionStorage = saveAgentsToSession(s, updatedAgents)]

\* the saved copy of the conversation is removed with the agents
clearAgents(s) ==
  [s EXCEPT !.agents = EmptyNormalized,
            !.sessionStorage =
              IF s.conversationId = "" THEN @
              ELSE [@ EXCEPT ![s.conversationId].agents = <<>>]]

(***************************************************************************)
(* messagesSlice                                                           *)
(***************************************************************************)
generateMessageId(k) == "msg_" \o ToString(k)

\* the id addMessage returns
addMessageId(s) == generateMessageId(s.msgSeq + 1)

addMessage(s, message) ==
  LET id == addMessageId(s)
      newMessage == [role |-> message.role, content |-> message.content,
                     agentId |-> message.agentId, toolUsage |-> <<>>]
      updatedMessages ==
        [byId |-> [i \in DOMAIN s.messages.byId \cup {id} |->
                     IF i = id THEN newMessage ELSE s.messages.byId[i]],
         allIds |-> Append(s.messages.allIds, id)]
  IN [s EXCEPT !.messages = updatedMessages,
               !.msgSeq = s.msgSeq + 1,
               !.sessionStorage = saveMessagesToSession(s, updatedMessages)]

\* not persisted to sessionStorage while streaming
appendToMessage(s, id, content) ==
  IF id \notin DOMAIN s.messages.byId THEN s
  ELSE [s EXCEPT !.messages.byId[id].content = @ \o content]

addToolUsage(s, messageId, toolUsage) ==
  IF messageId \notin DOMAIN s.messages.byId THEN s
  ELSE [s EXCEPT !.messages.byId[messageId].toolUsage = Append(@, toolUsage)]

\* toolIndex is 0-based as in the source
updateToolUsage(s, messageId, toolIndex, updates) ==
  IF \/ messageId \notin DOMAIN s.messages.byId
     \/ toolIndex + 1 \notin DOMAIN s.messages.byId[messageId].toolUsage
  THEN s
  ELSE LET old == s.messages.byId[messageId].toolUsage[toolIndex + 1]
           new == [f \in DOMAIN old |->
                     IF f \in DOMAIN updates THEN updates[f] ELSE old[f]]
       IN [s EXCEPT !.messages.byId[messageId].toolUsage[toolIndex + 1] = new]

\* not persisted to sessionStorage
deleteMessage(s, id) ==
  [s EXCEPT !.messages =
     [byId |-> [i \in DOMAIN s.messages.byId \ {id} |-> s.messages.byId[i]],
      allIds |-> SelectSeq(s.messages.allIds, LAMBDA msgId : msgId # id)]]

clearMessages(s) ==
  [s EXCEPT !.messages = EmptyNormalized,
            !.sessionStorage =
              IF s.conversationId = "" THEN @
              ELSE [@ EXCEPT ![s.conversationId].messages = <<>>]]

(***************************************************************************)
(* uiSlice                                                                 *)
(***************************************************************************)
setProcessing(s, processing) == [s EXCEPT !.isProcessing = processing]
setError(s, e) == [s EXCEPT !.error = e]
clearError(s) == [s EXCEPT !.error = None]

(***************************************************************************)
(* conversationSlice                                                       *)
(***************************************************************************)
\* loadXFromSession: <<>> when the id is empty or the key is missing
loadFromSession(s, id) ==
  IF id = "" THEN EmptySlot ELSE s.sessionStorage[id]

initConversation(s, id) ==
  LET saved == loadFromSession(s, id)
      s1 == [s EXCEPT !.conversationId = id]
      s2 == IF saved.messages # <<>> /\ Len(saved.messages[1].allIds) > 0
            THEN [s1 EXCEPT !.messages = saved.messages[1]] ELSE s1
      s3 == IF saved.agentConversations # <<>>
               /\ Len(saved.agentConversations[1]) > 0
            THEN [s2 EXCEPT !.agentConversations = saved.agentConversations[1]]
            ELSE s2
      s4 == IF saved.agents # <<>> /\ Len(saved.agents[1].allIds) > 0
            THEN [s3 EXCEPT !.agents = saved.agents[1]] ELSE s3
  IN s4

\* variant: the rounds kept in order of arrival
sortByRoundNumber_arrival(rounds) == rounds

\* Array.prototype.sort((a, b) => a.roundNumber - b.roundNumber): stable
RECURSIVE sortByRoundNumber(_)
sortByRoundNumber(rounds) ==
  IF rounds = <<>> THEN <<>>
  ELSE LET least == CHOOSE n \in {rounds[i].roundNumber : i \in DOMAIN rounds} :
                      \A i \in DOMAIN rounds : n <= rounds[i].roundNumber
           k == CHOOSE i \in DOMAIN rounds :
                  /\ rounds[i].roundNumber = least
                  /\ \A j \in 1..(i - 1) : rounds[j].roundNumber # least
           rest == SubSeq(rounds, 1, k - 1) \o SubSeq(rounds, k + 1, Len(rounds))
       IN <<rounds[k]>> \o sortByRoundNumber(rest)

\* findIndex: 1-based index of the first match, 0 when there is none
findRound(rounds, n) ==
  IF \E i \in DOMAIN rounds : rounds[i].roundNumber = n
  THEN CHOOSE i \in DOMAIN rounds :
         /\ rounds[i].roundNumber = n
         /\ \A j \in 1..(i - 1) : rounds[j].roundNumber # n
  ELSE 0

findMessage(msgs, messageId) ==
  IF \E i \in DOMAIN msgs : msgs[i].messageId = messageId
  THEN CHOOSE i \in DOMAIN msgs :
         /\ msgs[i].messageId = messageId
         /\ \A j \in 1..(i - 1) : msgs[j].messageId # messageId
  ELSE 0

\* Array.from(new Set([...list, x]))
addToSet(list, x) ==
  IF \E i \in DOMAIN list : list[i] = x THEN list ELSE Append(list, x)

addAgentMessage(s, message) ==
  LET rounds == s.agentConversations
      roundIndex == findRound(rounds, message.roundNumber)
  IN IF roundIndex # 0
     THEN IF findMessage(rounds[roundIndex].messages, message.messageId) # 0
          THEN s
          ELSE LET updated ==
                     [rounds EXCEPT
                        ![roundIndex].messages = Append(@, message),
                        ![roundIndex].participatingAgents =
                           addToSet(@, message.agentId)]
               IN [s EXCEPT !.agentConversations = updated,
                            !.sessionStorage =
                               saveAgentConversationsToSession(s, updated)]
     ELSE LET newRound == [roundNumber |-> message.roundNumber,
                           messages |-> <<message>>,
                           participatingAgents |-> <<message.agentId>>,
                           isComplete |-> FALSE]
              updated == sortByRoundNumber(Append(rounds, newRound))
          IN [s EXCEPT !.agentConversations = updated,
                       !.sessionStorage =
                          saveAgentConversationsToSession(s, updated)]

\* variant: a chunk overwrites the content it should extend
appendToAgentMessage_overwrite(s, messageId, content) ==
  LET rounds ==
        [r \in DOMAIN s.agentConversations |->
           LET round == s.agentConversations[r]
               messageIndex == findMessage(round.messages, messageId)
           IN IF messageIndex # 0
              THEN [round EXCEPT !.messages[messageIndex].content = content]
              ELSE round]
  IN [s EXCEPT !.agentConversations = rounds,
               !.sessionStorage = saveAgentConversationsToSession(s, rounds)]

appendToAgentMessage(s, messageId, content) ==
  LET rounds ==
        [r \in DOMAIN s.agentConversations |->
           LET round == s.agentConversations[r]
               messageIndex == findMessage(round.messages, messageId)
           IN IF messageIndex # 0
              THEN [round EXCEPT !.messages[messageIndex].content = @ \o content]
              ELSE round]
  IN [s EXCEPT !.agentConversations = rounds,
               !.sessionStorage = saveAgentConversationsToSession(s, rounds)]

(***************************************************************************)
(* StreamEvent: every field is optional on the wire.  An absent field is   *)
(* None, the empty string, 0 or the empty list, each falsy as in the       *)
(* source's `if (event.field)` tests.                                      *)
(***************************************************************************)
NoEvent ==
  [type |-> None, conversationId |-> "", agentId |-> None, agentType |-> None,
   status |-> None, message |-> None, queries |-> <<>>, content |-> "",
   messageId |-> None, roundNumber |-> 0, error |-> "", toolName |-> None,
   toolQuery |-> None, toolProvider |-> None, toolResults |-> None,
   toolStatus |-> None]

E_init(cid) == [NoEvent EXCEPT !.type = "init", !.conversationId = cid]
E_agent_status(a, t, st, m) ==
  [NoEvent EXCEPT !.type = "agent_status", !.agentId = a, !.agentType = t,
                  !.status = st, !.message = m]
E_delegation(q) == [NoEvent EXCEPT !.type = "delegation", !.queries = q]
E_sub_agent_response(a) ==
  [NoEvent EXCEPT !.type = "sub_agent_response", !.agentId = a]
E_stream(c) == [NoEvent EXCEPT !.type = "stream", !.content = c]
E_complete == [NoEvent EXCEPT !.type = "complete"]
E_stream_end == [NoEvent EXCEPT !.type = "stream_end"]
E_cancelled == [NoEvent EXCEPT !.type = "cancelled"]
E_error(e) == [NoEvent EXCEPT !.type = "error", !.error = e]
E_agent_thinking(a, t, n) ==
  [NoEvent EXCEPT !.type = "agent_thinking", !.agentId = a, !.agentType = t,
                  !.roundNumber = n]
E_agent_message_chunk(m, a, t, c, n) ==
  [NoEvent EXCEPT !.type = "agent_message_chunk", !.messageId = m,
                  !.agentId = a, !.agentType = t, !.content = c,
                  !.roundNumber = n]
E_agent_message(m, a, t, c, n) ==
  [NoEvent EXCEPT !.type = "agent_message", !.messageId = m, !.agentId = a,
                  !.agentType = t, !.content = c, !.roundNumber = n]
E_conversation_round_complete(n) ==
  [NoEvent EXCEPT !.type = "conversation_round_complete", !.roundNumber = n]
E_tool_use(tn, q) ==
  [NoEvent EXCEPT !.type = "tool_use", !.toolName = tn, !.toolQuery = q]
E_tool_result(tn, r, ts) ==
  [NoEvent EXCEPT !.type = "tool_result", !.toolName = tn, !.toolResults = r,
                  !.toolStatus = ts]
E_unknown(type) == [NoEvent EXCEPT !.type = type]

(***************************************************************************)
(* streamSlice: handleStreamEvent.  In every case `state` is the store     *)
(* read once on entry (const state = get()); the slice operations act on   *)
(* the live store, threaded here as s0, s1, ...                            *)
(***************************************************************************)
Terminal == {"complete", "error"}
Active == {"thinking", "responding"}

\* `event.roundNumber || 1`
roundOr1(n) == IF n = 0 THEN 1 ELSE n
RoundLabel(n) == "Round " \o ToString(roundOr1(n))

case_init(state, event) ==
  LET s1 == initConversation(state, event.conversationId)
      s2 == setProcessing(s1, TRUE)
      s3 == clearError(s2)
  IN [s3 EXCEPT !.isStreaming = TRUE]

\* variant: thinking and responding accepted while no stream is active
case_agent_status_unguarded(state, event) ==
  IF event.agentId = None \/ event.status = None THEN state
  ELSE IF event.agentId \in DOMAIN state.agents.byId
  THEN IF state.agents.byId[event.agentId].status \in Terminal
          /\ event.status \in Active
       THEN state
       ELSE updateAgent(state, event.agentId,
                        [status |-> event.status,
                         currentMessage |-> event.message])
  ELSE IF event.agentType # None
  THEN addAgent(state, [agentId |-> event.agentId,
                        agentType |-> event.agentType,
                        status |-> event.status,
                        currentMessage |-> event.message,
                        progress |-> 0])
  ELSE state

case_agent_status(state, event) ==
  IF event.agentId = None \/ event.status = None THEN state
  ELSE IF ~state.isStreaming /\ event.status \in Active THEN state
  ELSE IF event.agentId \in DOMAIN state.agents.byId
  THEN IF state.agents.byId[event.agentId].status \in Terminal
          /\ event.status \in Active
       THEN state
       ELSE updateAgent(state, event.agentId,
                        [status |-> event.status,
                         currentMessage |-> event.message])
  ELSE IF event.agentType # None
  THEN addAgent(state, [agentId |-> event.agentId,
                        agentType |-> event.agentType,
                        status |-> event.status,
                        currentMessage |-> event.message,
                        progress |-> 0])
  ELSE state

RECURSIVE forEachQuery(_, _)
forEachQuery(s, queries) ==
  IF queries = <<>> THEN s
  ELSE forEachQuery(addAgent(s, [agentId |-> None,
                                 agentType |-> Head(queries).agentType,
                                 status |-> "thinking",
                                 currentMessage |-> Head(queries).query,
                                 progress |-> 0]),
                    Tail(queries))

case_delegation(state, event) == forEachQuery(state, event.queries)

case_sub_agent_response(state, event) ==
  IF event.agentId = None THEN state
  ELSE updateAgent(state, event.agentId,
                   [status |-> "complete", progress |-> 100])

case_stream(state, event) ==
  IF event.content = "" THEN state
  ELSE IF state.streamingMessageId # None
          /\ state.streamingMessageId \in DOMAIN state.messages.byId
  THEN appendToMessage(state, state.streamingMessageId, event.content)
  ELSE [addMessage(state, [role |-> "assistant", content |-> event.content,
                           agentId |-> event.agentId])
          EXCEPT !.streamingMessageId = addMessageId(state)]

\* conversationHistory is written only when the store holds a user message,
\* which no stream event creates; the history is not part of this model.
saveCurrentConversation(s) == s

\* state.agents.allIds.forEach over the snapshot: every agent whose status
\* is not among the skipped ones is updated in the live store
RECURSIVE forEachAgent(_, _, _, _, _)
forEachAgent(s, state, ids, skipped, updates) ==
  IF ids = <<>> THEN s
  ELSE LET agent == state.agents.byId[Head(ids)]
           s1 == IF agent.status \notin skipped
                 THEN updateAgent(s, Head(ids), updates)
                 ELSE s
       IN forEachAgent(s1, state, Tail(ids), skipped, updates)

\* `agent.status !== 'complete' && agent.status !== 'error'`
finishedStatus == {"complete", "error"}
\* `agent.status !== 'complete'`
completeStatus == {"complete"}

case_complete(state, event) ==
  LET s1 == [state EXCEPT !.isStreaming = FALSE, !.streamingMessageId = None]
      s2 == setProcessing(s1, FALSE)
      s3 == forEachAgent(s2, state, state.agents.allIds, finishedStatus,
                         [status |-> "complete", progress |-> 100])
  IN saveCurrentConversation(s3)

\* variant: stream_end closes the stream and leaves the agents as they are
case_stream_end_agentsKept(state, event) ==
  LET s1 == [state EXCEPT !.isStreaming = FALSE, !.streamingMessageId = None]
      s2 == setProcessing(s1, FALSE)
  IN saveCurrentConversation(s2)

case_stream_end(state, event) ==
  LET s1 == [state EXCEPT !.isStreaming = FALSE, !.streamingMessageId = None]
      s2 == setProcessing(s1, FALSE)
      s3 == forEachAgent(s2, state, state.agents.allIds, finishedStatus,
                         [status |-> "complete", progress |-> 100])
  IN saveCurrentConversation(s3)

\* variant: cancellation finishes the agents as stream_end does
case_cancelled_completes(state, event) ==
  LET s1 == setProcessing(state, FALSE)
      s2 == [s1 EXCEPT !.isStreaming = FALSE, !.streamingMessageId = None]
  IN forEachAgent(s2, state, state.agents.allIds, finishedStatus,
                  [status |-> "complete", progress |-> 100])

case_cancelled(state, event) ==
  LET s1 == setProcessing(state, FALSE)
      s2 == [s1 EXCEPT !.isStreaming = FALSE, !.streamingMessageId = None]
  IN forEachAgent(s2, state, state.agents.allIds, completeStatus,
                  [status |-> "error", currentMessage |-> "Cancelled"])

\* variant: an error discards the rounds collected so far
case_error_discards(state, event) ==
  LET s1 == setError(state, IF event.error = "" THEN "An error occurred"
                            ELSE event.error)
      s2 == setProcessing(s1, FALSE)
  IN [s2 EXCEPT !.isStreaming = FALSE, !.streamingMessageId = None,
                !.agentConversations = <<>>]

\* `event.error || 'An error occurred'`
case_error(state, event) ==
  LET s1 == setError(state, IF event.error = "" THEN "An error occurred"
                            ELSE event.error)
      s2 == setProcessing(s1, FALSE)
  IN [s2 EXCEPT !.isStreaming = FALSE, !.streamingMessageId = None]

case_agent_thinking(state, event) ==
  IF event.agentId = None THEN state
  ELSE IF ~state.isStreaming THEN state
  ELSE IF event.agentId \in DOMAIN state.agents.byId
  THEN IF state.agents.byId[event.agentId].status \in Terminal THEN state
       ELSE updateAgent(state, event.agentId,
                        [status |-> "thinking",
                         currentMessage |-> RoundLabel(event.roundNumber)])
  ELSE IF event.agentType # None
  THEN addAgent(state, [agentId |-> event.agentId,
                        agentType |-> event.agentType,
                        status |-> "thinking",
                        currentMessage |-> RoundLabel(event.roundNumber),
                        progress |-> 0])
  ELSE state

\* some round of the snapshot holds a message with this id
messageExists(state, messageId) ==
  \E r \in DOMAIN state.agentConversations :
    findMessage(state.agentConversations[r].messages, messageId) # 0

\* variant: without the guard against late chunks
case_agent_message_chunk_late(state, event) ==
  IF event.messageId = None \/ event.agentId = None \/ event.content = ""
  THEN state
  ELSE
  LET s1 == IF event.agentId \notin DOMAIN state.agents.byId
               /\ event.agentType # None
            THEN addAgent(state, [agentId |-> event.agentId,
                                  agentType |-> event.agentType,
                                  status |-> "responding",
                                  currentMessage |-> RoundLabel(event.roundNumber),
                                  progress |-> 50])
            ELSE state
      s2 == IF event.agentId \in DOMAIN state.agents.byId
               /\ state.agents.byId[event.agentId].status # "complete"
               /\ state.agents.byId[event.agentId].status # "error"
            THEN updateAgent(s1, event.agentId,
                             [status |-> "responding",
                              currentMessage |-> RoundLabel(event.roundNumber)])
            ELSE s1
  IN IF messageExists(state, event.messageId)
     THEN appendToAgentMessage(s2, event.messageId, event.content)
     ELSE addAgentMessage(s2, [messageId |-> event.messageId,
                               agentId |-> event.agentId,
                               agentType |-> event.agentType,
                               content |-> event.content,
                               roundNumber |-> roundOr1(event.roundNumber)])

case_agent_message_chunk(state, event) ==
  IF event.messageId = None \/ event.agentId = None \/ event.content = ""
  THEN state
  ELSE IF ~state.isStreaming THEN state
  ELSE
  LET s1 == IF event.agentId \notin DOMAIN state.agents.byId
               /\ event.agentType # None
            THEN addAgent(state, [agentId |-> event.agentId,
                                  agentType |-> event.agentType,
                                  status |-> "responding",
                                  currentMessage |-> RoundLabel(event.roundNumber),
                                  progress |-> 50])
            ELSE state
      s2 == IF event.agentId \in DOMAIN state.agents.byId
               /\ state.agents.byId[event.agentId].status # "complete"
               /\ state.agents.byId[event.agentId].status # "error"
            THEN updateAgent(s1, event.agentId,
                             [status |-> "responding",
                              currentMessage |-> RoundLabel(event.roundNumber)])
            ELSE s1
  IN IF messageExists(state, event.messageId)
     THEN appendToAgentMessage(s2, event.messageId, event.content)
     ELSE addAgentMessage(s2, [messageId |-> event.messageId,
                               agentId |-> event.agentId,
                               agentType |-> event.agentType,
                               content |-> event.content,
                               roundNumber |-> roundOr1(event.roundNumber)])

case_agent_message(state, event) ==
  IF event.messageId = None \/ event.agentId = None THEN state
  ELSE
  LET s1 == IF event.agentId \notin DOMAIN state.agents.byId
               /\ event.agentType # None
            THEN addAgent(state, [agentId |-> event.agentId,
                                  agentType |-> event.agentType,
                                  status |-> "responding",
                                  currentMessage |-> "Responding...",
                                  progress |-> 50])
            ELSE state
      \* the existence test reads the Message store (state.messages.byId)
      s2 == IF event.content # ""
               /\ event.messageId \notin DOMAIN state.messages.byId
            THEN addAgentMessage(s1, [messageId |-> event.messageId,
                                      agentId |-> event.agentId,
                                      agentType |-> event.agentType,
                                      content |-> event.content,
                                      roundNumber |-> roundOr1(event.roundNumber)])
            ELSE s1
  IN IF event.agentId \in DOMAIN state.agents.byId
     THEN updateAgent(s2, event.agentId,
                      [status |-> "complete", currentMessage |-> None])
     ELSE s2

case_conversation_round_complete(state, event) == state

case_tool_use(state, event) ==
  IF event.toolName = None \/ event.toolQuery = None THEN state
  ELSE IF state.streamingMessageId # None
  THEN addToolUsage(state, state.streamingMessageId,
                    [toolName |-> event.toolName, query |-> event.toolQuery,
                     provider |-> event.toolProvider, status |-> "pending",
                     results |-> None])
  ELSE state

\* variant: the result goes to the first entry
case_tool_result_first(state, event) ==
  IF event.toolName = None \/ event.toolResults = None THEN state
  ELSE IF state.streamingMessageId # None
          /\ state.streamingMessageId \in DOMAIN state.messages.byId
  THEN LET message == state.messages.byId[state.streamingMessageId]
       IN IF Len(message.toolUsage) >= 1
          THEN updateToolUsage(state, state.streamingMessageId, 0,
                               [results |-> event.toolResults,
                                status |-> IF event.toolStatus = None
                                           THEN "complete"
                                           ELSE event.toolStatus])
          ELSE state
  ELSE state

\* `event.toolStatus || 'complete'`; toolIndex is the last entry
case_tool_result(state, event) ==
  IF event.toolName = None \/ event.toolResults = None THEN state
  ELSE IF state.streamingMessageId # None
          /\ state.streamingMessageId \in DOMAIN state.messages.byId
  THEN LET message == state.messages.byId[state.streamingMessageId]
           toolIndex == Len(message.toolUsage) - 1
       IN IF toolIndex >= 0
          THEN updateToolUsage(state, state.streamingMessageId, toolIndex,
                               [results |-> event.toolResults,
                                status |-> IF event.toolStatus = None
                                           THEN "complete"
                                           ELSE event.toolStatus])
          ELSE state
  ELSE state

handleStreamEvent(state, event) ==
  CASE event.type = "init" -> case_init(state, event)
    [] event.type = "agent_status" -> case_agent_status(state, event)
    [] event.type = "delegation" -> case_delegation(state, event)
    [] event.type = "sub_agent_response" -> case_sub_agent_response(state, event)
    [] event.type = "stream" -> case_stream(state, event)
    [] event.type = "complete" -> case_complete(state, event)
    [] event.type = "stream_end" -> case_stream_end(state, event)
    [] event.type = "cancelled" -> case_cancelled(state, event)
    [] event.type = "error" -> case_error(state, event)
    [] event.type = "agent_thinking" -> case_agent_thinking(state, event)
    [] event.type = "agent_message_chunk" -> case_agent_message_chunk(state, event)
    [] event.type = "agent_message" -> case_agent_message(state, event)
    [] event.type = "conversation_round_complete" ->
         case_conversation_round_complete(state, event)
    [] event.type = "tool_use" -> case_tool_use(state, event)
    [] event.type = "tool_result" -> case_tool_result(state, event)
    [] OTHER -> state

(***************************************************************************)
(* Scenarios: event sequences, each step given as the set of events that   *)
(* may stand there.  trace holds the events processed since construction   *)
(* while they follow a scenario, and Off once they have left all of them.  *)
(***************************************************************************)
EventType(a, hasType) == IF hasType THEN TypeOf(a) ELSE None
Off == <<E_unknown("off")>>

StaleKnown ==
  << {E_init(c) : c \in ConvIds},
     {E_agent_status("agent1", TypeOf("agent1"), "thinking", None)},
     {E_stream_end},
     {E_agent_status("agent1", t, "thinking", None) :
        t \in {None, TypeOf("agent1")}} >>
StaleUnknown ==
  << {E_init(c) : c \in ConvIds},
     {E_stream_end},
     {E_agent_status("agent1", t, "thinking", None) :
        t \in {None, TypeOf("agent1")}} >>
DelegateCancel ==
  << {E_delegation(<<[agentType |-> t, query |-> "q"]>>) : t \in AgentTypes},
     {E_cancelled} >>
Hello ==
  << {E_init(c) : c \in ConvIds},
     {E_agent_status("agent1", TypeOf("agent1"), "thinking", None)},
     {E_agent_message_chunk("m1", "agent1", t, "Hel", n) :
        t \in {None, TypeOf("agent1")}, n \in 0..2},
     {E_agent_message_chunk("m1", "agent1", t, "lo", n) :
        t \in {None, TypeOf("agent1")}, n \in 0..2},
     {E_agent_message("m1", "agent1", t, "", n) :
        t \in {None, TypeOf("agent1")}, n \in 0..2},
     {E_stream_end} >>
TwoTools ==
  << {E_init(c) : c \in ConvIds},
     {E_stream(c) : c \in {"Hel", "lo"}},
     {E_tool_use("web_search", "query")},
     {E_tool_use("web_search", "query")},
     {E_tool_result("web_search", "r1", ts) : ts \in ToolStatus \cup {None}} >>
\* round 2 opens before round 1
LateRound ==
  << {E_init(c) : c \in ConvIds},
     {E_agent_message_chunk("m1", "agent1", TypeOf("agent1"), c, 2) :
        c \in {"Hel", "lo"}},
     {E_agent_message_chunk("m2", "agent2", t, "lo", 1) :
        t \in {None, TypeOf("agent2")}} >>
\* a chunk that arrives after the end of its stream
LateChunk ==
  << {E_init(c) : c \in ConvIds},
     {E_agent_message_chunk("m1", "agent1", t, "lo", n) :
        t \in {None, TypeOf("agent1")}, n \in 0..2},
     {E_cancelled, E_stream_end},
     {E_agent_message_chunk("m1", "agent1", t, "lo", n) :
        t \in {None, TypeOf("agent1")}, n \in 0..2} >>
Scenarios ==
  {StaleKnown, StaleUnknown, DelegateCancel, Hello, TwoTools, LateRound,
   LateChunk}

Follows(t, sc) ==
  /\ Len(t) <= Len(sc)
  /\ \A i \in 1..Len(t) : t[i] \in sc[i]

Follow(t, ev) ==
  IF t # Off /\ \E sc \in Scenarios : Follows(Append(t, ev), sc)
  THEN Append(t, ev) ELSE Off

(***************************************************************************)
(* WebSocketService.  The service is one record: its private fields, the   *)
(* sockets it has created (sockets[i] is the readyState of the i-th        *)
(* socket, whose callbacks stay bound to the service after this.ws moves   *)
(* on), the frames sent on each socket, and the timers the browser holds.  *)
(* ws, reconnectTimer: 0 is null.  Every method and every callback runs    *)
(* to completion, as JavaScript runs them.                                 *)
(***************************************************************************)
maxReconnectAttempts == 1   \* the cap (config.maxReconnectAttempts, 10 by default)
MaxSockets == 3             \* sockets created in one run
MaxTimers == 2              \* reconnect timers set in one run
MaxFrames == 2              \* frames sent in one run
MaxNotified == 2            \* fatal errors notified in one run
MaxRetries == 5             \* the cap in the runs that study the delay
reconnectInterval == 3000   \* config.reconnectInterval by default

Frame(type, cid) == [type |-> type, conversationId |-> cid]

\* new WebSocketService(config)
WebSocketService(autoReconnect) ==
  [ws |-> 0, sockets |-> <<>>, outbound |-> <<>>,
   reconnectAttempts |-> 0, reconnectTimer |-> 0, timers |-> {}, timerSeq |-> 0,
   heartbeatTimer |-> FALSE, isIntentionallyClosed |-> FALSE,
   subscriptions |-> <<>>, connectionId |-> None,
   autoReconnect |-> autoReconnect,
   reconnectInterval |-> reconnectInterval,
   maxReconnectAttempts |-> maxReconnectAttempts,
   \* the delay of the reconnect timer set in the current step, if any
   delay |-> 0,
   \* observers and history
   fatalErrors |-> 0, closedByDisconnect |-> {}, gaveUp |-> FALSE,
   threw |-> FALSE,
   \* useWebSocket: the error state that the error observers set, and
   \* whether an error observer has run in the current step
   wsError |-> None, notified |-> FALSE,
   \* the type of the frame that the current step has received, if any, and
   \* of the event that the message observers were given in it
   inbound |-> "", delivered |-> ""]

isConnected(w) == w.ws # 0 /\ w.sockets[w.ws] = "open"

\* a method or a callback begins: nothing is thrown yet
called(w) ==
  [w EXCEPT !.threw = FALSE, !.notified = FALSE, !.inbound = "",
            !.delivered = "", !.delay = 0]

\* notifyErrorHandlers: useWebSocket's handler is setError(err)
notifyErrorHandlers(w, text) == [w EXCEPT !.wsError = text, !.notified = TRUE]

\* notifyConnectionHandlers: useWebSocket's handler clears the error when
\* connected
notifyConnectionHandlers(w, connected) ==
  IF connected THEN [w EXCEPT !.wsError = None] ELSE w

\* variant: send drops the frame silently when the socket is not open
send_silent(w, frame) ==
  IF w.ws # 0 /\ w.sockets[w.ws] = "open"
  THEN [w EXCEPT !.outbound[w.ws] = Append(@, frame)] ELSE w

\* send: the frame goes out on an open socket; otherwise send throws, and
\* so does the method that called it
canSend(w) == isConnected(w)
send(w, frame) ==
  IF canSend(w) THEN [w EXCEPT !.outbound[w.ws] = Append(@, frame)]
  ELSE [w EXCEPT !.threw = TRUE]

\* connect(): a new socket unless the current one is open
connect(w) ==
  IF isConnected(w) THEN w
  ELSE [w EXCEPT !.isIntentionallyClosed = FALSE,
                 !.sockets = Append(@, "connecting"),
                 !.outbound = Append(@, <<>>),
                 !.ws = Len(w.sockets) + 1]

stopHeartbeat(w) == [w EXCEPT !.heartbeatTimer = FALSE]
startHeartbeat(w) == [stopHeartbeat(w) EXCEPT !.heartbeatTimer = TRUE]

\* WebSocket.close(): the close event comes later
close(w, s) ==
  [w EXCEPT !.sockets[s] = IF @ \in {"connecting", "open"} THEN "closing" ELSE @]

\* variant: disconnect leaves the registry as it is
disconnect_registryKept(w) ==
  LET w1 == stopHeartbeat([w EXCEPT !.isIntentionallyClosed = TRUE])
      w2 == IF w1.reconnectTimer # 0
            THEN [w1 EXCEPT !.timers = @ \ {w1.reconnectTimer},
                            !.reconnectTimer = 0]
            ELSE w1
      w3 == IF w2.ws # 0
            THEN [close(w2, w2.ws) EXCEPT
                    !.ws = 0,
                    !.closedByDisconnect = @ \cup {w2.ws}]
            ELSE w2
  IN [w3 EXCEPT !.connectionId = None]

disconnect(w) ==
  LET w1 == stopHeartbeat([w EXCEPT !.isIntentionallyClosed = TRUE])
      w2 == IF w1.reconnectTimer # 0
            THEN [w1 EXCEPT !.timers = @ \ {w1.reconnectTimer},
                            !.reconnectTimer = 0]
            ELSE w1
      w3 == IF w2.ws # 0
            THEN [close(w2, w2.ws) EXCEPT
                    !.ws = 0,
                    !.closedByDisconnect = @ \cup {w2.ws}]
            ELSE w2
  IN [w3 EXCEPT !.connectionId = None, !.subscriptions = <<>>]

\* Set.add / Set.delete: a Set keeps the order of insertion
setAdd(list, x) ==
  IF \E i \in DOMAIN list : list[i] = x THEN list ELSE Append(list, x)
setDelete(list, x) == SelectSeq(list, LAMBDA y : y # x)

\* variant: the registry changes only after the frame has gone out
subscribe_sendFirst(w, cid) ==
  IF canSend(w)
  THEN send([w EXCEPT !.subscriptions = setAdd(@, cid)], Frame("subscribe", cid))
  ELSE send(w, Frame("subscribe", cid))

\* the registry changes before send, which may throw
subscribe(w, cid) ==
  send([w EXCEPT !.subscriptions = setAdd(@, cid)], Frame("subscribe", cid))
unsubscribe(w, cid) ==
  send([w EXCEPT !.subscriptions = setDelete(@, cid)], Frame("unsubscribe", cid))
sendTask(w, cid) == send(w, Frame("task", cid))
stopGeneration(w, cid) == send(w, Frame("stop", cid))

\* App.handleStopGeneration, through useWebSocket.stopGeneration: nothing
\* is called without a conversation
handleStopGeneration(w, cid) == IF cid # "" THEN stopGeneration(w, cid) ELSE w

\* the heartbeat's setInterval callback
heartbeat(w) == IF isConnected(w) THEN send(w, Frame("ping", "")) ELSE w

\* subscriptions.forEach(send): the first send that throws ends the loop,
\* and all of them meet the same socket
RECURSIVE resubscribe(_, _)
resubscribe(w, subs) ==
  IF subs = <<>> THEN w
  ELSE IF ~canSend(w) THEN send(w, Frame("subscribe", Head(subs)))
  ELSE resubscribe(send(w, Frame("subscribe", Head(subs))), Tail(subs))

min(a, b) == IF a <= b THEN a ELSE b

\* variant: the delay grows with every attempt
attemptReconnect_linear(w) ==
  IF w.reconnectAttempts >= w.maxReconnectAttempts
  THEN notifyErrorHandlers([w EXCEPT !.fatalErrors = @ + 1, !.gaveUp = TRUE],
                           "Max reconnection attempts reached")
  ELSE [w EXCEPT !.reconnectAttempts = @ + 1,
                 !.delay = w.reconnectInterval * (w.reconnectAttempts + 1),
                 !.timerSeq = @ + 1,
                 !.reconnectTimer = w.timerSeq + 1,
                 !.timers = @ \cup {w.timerSeq + 1}]

\* the count is incremented first, and the delay is computed from it
attemptReconnect(w) ==
  IF w.reconnectAttempts >= w.maxReconnectAttempts
  THEN notifyErrorHandlers([w EXCEPT !.fatalErrors = @ + 1, !.gaveUp = TRUE],
                           "Max reconnection attempts reached")
  ELSE [w EXCEPT !.reconnectAttempts = @ + 1,
                 !.delay = w.reconnectInterval * min(w.reconnectAttempts + 1, 3),
                 !.timerSeq = @ + 1,
                 !.reconnectTimer = w.timerSeq + 1,
                 !.timers = @ \cup {w.timerSeq + 1}]

\* variant: the heartbeat pings at once, before the replay
onopen_pingFirst(w, s) ==
  LET w1 == [w EXCEPT !.sockets[s] = "open", !.reconnectAttempts = 0,
                      !.gaveUp = FALSE]
      w2 == heartbeat(notifyConnectionHandlers(startHeartbeat(w1), TRUE))
  IN resubscribe(w2, w2.subscriptions)

\* ws.onopen of socket s
onopen(w, s) ==
  LET w1 == [w EXCEPT !.sockets[s] = "open", !.reconnectAttempts = 0,
                      !.gaveUp = FALSE]
      w2 == notifyConnectionHandlers(startHeartbeat(w1), TRUE)
  IN resubscribe(w2, w2.subscriptions)

\* ws.onclose of socket s
onclose(w, s) ==
  LET w1 == notifyConnectionHandlers(
              stopHeartbeat([w EXCEPT !.sockets[s] = "closed"]), FALSE)
  IN IF ~w1.isIntentionallyClosed /\ w1.autoReconnect
     THEN attemptReconnect(w1) ELSE w1

\* ws.onerror of socket s: the connection has failed, and its close event
\* follows
onerror(w, s) ==
  notifyErrorHandlers([w EXCEPT !.sockets[s] = "failed"],
                      "WebSocket connection error")

\* what arrives on a socket: text that JSON.parse accepts or rejects
Wire(message) == [parses |-> TRUE, message |-> message]
Unparsable == [parses |-> FALSE, message |-> NoEvent]
ControlTypes == {"connected", "pong", "subscribed", "unsubscribed"}
\* message.connectionId of the connected frame, chosen by the server
ServerConnectionId == "conn"

\* notifyMessageHandlers: the observer of useWebSocket is called with the
\* event, within the step
notifyMessageHandlers(w, event) ==
  [service |-> [w EXCEPT !.delivered = event.type], forwarded |-> event]

\* variant: the heartbeat's answer is treated as a stream event
handleMessage_pongForwarded(w, message) ==
  CASE message.type = "connected" ->
         [service |-> [w EXCEPT !.connectionId = ServerConnectionId],
          forwarded |-> NoEvent]
    [] message.type \in ControlTypes \ {"pong", "connected"} ->
         [service |-> w, forwarded |-> NoEvent]
    [] message.type = "error" ->
         [service |-> notifyErrorHandlers(w, message.error),
          forwarded |-> NoEvent]
    [] OTHER -> notifyMessageHandlers(w, message)

\* handleMessage: the service and the event it forwards to the message
\* observers, if any
handleMessage(w, message) ==
  CASE message.type = "connected" ->
         [service |-> [w EXCEPT !.connectionId = ServerConnectionId],
          forwarded |-> NoEvent]
    [] message.type \in ControlTypes -> [service |-> w, forwarded |-> NoEvent]
    [] message.type = "error" ->
         [service |-> notifyErrorHandlers(w, message.error),
          forwarded |-> NoEvent]
    [] OTHER -> notifyMessageHandlers(w, message)

\* variant: a frame that does not parse is reported to the error observers
onmessage_parseFatal(w, data) ==
  IF data.parses
  THEN handleMessage([w EXCEPT !.inbound = data.message.type], data.message)
  ELSE [service |-> notifyErrorHandlers([w EXCEPT !.inbound = "unparsable"],
                                        "Failed to parse"),
        forwarded |-> NoEvent]

\* ws.onmessage: a frame that does not parse is logged and dropped
onmessage(w, data) ==
  IF data.parses
  THEN handleMessage([w EXCEPT !.inbound = data.message.type], data.message)
  ELSE [service |-> [w EXCEPT !.inbound = "unparsable"], forwarded |-> NoEvent]

\* the reconnect timer's callback
reconnect(w, t) == connect([w EXCEPT !.timers = @ \ {t}])

RECURSIVE framesSent(_)
framesSent(outbound) ==
  IF outbound = <<>> THEN 0
  ELSE Len(Head(outbound)) + framesSent(Tail(outbound))

\* the bounds of the model, on the service a step would leave
ServiceWithinBounds(w) ==
  /\ Len(w.sockets) <= MaxSockets
  /\ w.timerSeq <= MaxTimers
  /\ w.fatalErrors <= MaxNotified
  /\ framesSent(w.outbound) <= MaxFrames

(***************************************************************************)
(* The store after construction, and the processing of one event.          *)
(***************************************************************************)
StoreInit ==
  /\ agents = EmptyNormalized
  /\ messages = EmptyNormalized
  /\ agentConversations = <<>>
  /\ conversationId = ""
  /\ isProcessing = FALSE
  /\ error = None
  /\ isStreaming = FALSE
  /\ streamingMessageId = None
  /\ sessionStorage = [c \in ConvIds |-> EmptySlot]
  /\ agentSeq = 0
  /\ msgSeq = 0
  /\ trace = <<>>
  /\ ended = {}
  /\ finished = {}

\* the store and the service with its default configuration
Init ==
  /\ StoreInit
  /\ service = WebSocketService(TRUE)

\* the service under either setting of config.autoReconnect
InitService ==
  /\ StoreInit
  /\ \E autoReconnect \in BOOLEAN : service = WebSocketService(autoReconnect)

\* the service configured with a cap of MaxRetries and some interval
Intervals == {1000, reconnectInterval, 5000}
InitRetry ==
  /\ StoreInit
  /\ \E interval \in Intervals :
       service = [WebSocketService(TRUE) EXCEPT
                    !.reconnectInterval = interval,
                    !.maxReconnectAttempts = MaxRetries]

RECURSIVE toolCount(_, _)
toolCount(msgs, ids) ==
  IF ids = <<>> THEN 0
  ELSE Len(msgs.byId[Head(ids)].toolUsage) + toolCount(msgs, Tail(ids))

\* the bounds of the model, on the store an event would leave
WithinBounds(s) ==
  /\ s.agentSeq <= MaxGenAgents
  /\ s.msgSeq <= MaxMessages
  /\ \A id \in DOMAIN s.messages.byId :
       Len(s.messages.byId[id].content) <= MaxContentLen
  /\ toolCount(s.messages, s.messages.allIds) <= MaxTools
  /\ \A r \in DOMAIN s.agentConversations :
       \A i \in DOMAIN s.agentConversations[r].messages :
         Len(s.agentConversations[r].messages[i].content) <= MaxContentLen

StreamEnders == {"complete", "stream_end", "cancelled", "error"}

\* an event the bounds of the model leave room for
Accepts(event) == WithinBounds(handleStreamEvent(get, event))

\* useWebSocket: ws.onMessage((event) => handleStreamEvent(event))
Handled(event) ==
  LET s == handleStreamEvent(get, event)
  IN /\ Store(s)
     /\ trace' = Follow(trace, event)
     /\ ended' = IF event.type = "init" THEN {}
                ELSE IF event.type \in StreamEnders
                     THEN ended \cup {event.type} ELSE ended
     /\ finished' = finished \cup {a \in DOMAIN s.agents.byId :
                                     s.agents.byId[a].status \in Terminal}

\* an event handled with the service at rest
Dispatch(event) == Handled(event) /\ UNCHANGED service

\* a message id names one message of one agent
AuthorOf(m) == IF m = "m1" THEN "agent1" ELSE "agent2"

\* One action per type of server event; the payloads are drawn from the
\* sets the specification passes.
ev_init(Ids) ==
  \E c \in Ids :
    LET event == E_init(c) IN Accepts(event) /\ Dispatch(event)
ev_agent_status(As, Hs, Sts, Ms) ==
  \E a \in As, hasType \in Hs, st \in Sts, m \in Ms :
    LET event == E_agent_status(a, EventType(a, hasType), st, m)
    IN Accepts(event) /\ Dispatch(event)
ev_delegation ==
  \E t \in AgentTypes :
    LET event == E_delegation(<<[agentType |-> t, query |-> "q"]>>)
    IN Accepts(event) /\ Dispatch(event)
ev_sub_agent_response(As) ==
  \E a \in As :
    LET event == E_sub_agent_response(a) IN Accepts(event) /\ Dispatch(event)
ev_stream(Cs) ==
  \E c \in Cs :
    LET event == E_stream(c) IN Accepts(event) /\ Dispatch(event)
ev_complete == Accepts(E_complete) /\ Dispatch(E_complete)
ev_stream_end == Accepts(E_stream_end) /\ Dispatch(E_stream_end)
ev_cancelled == Accepts(E_cancelled) /\ Dispatch(E_cancelled)
ev_error(Es) ==
  \E e \in Es :
    LET event == E_error(e) IN Accepts(event) /\ Dispatch(event)
ev_agent_thinking(As, Hs, Ns) ==
  \E a \in As, hasType \in Hs, n \in Ns :
    LET event == E_agent_thinking(a, EventType(a, hasType), n)
    IN Accepts(event) /\ Dispatch(event)
ev_agent_message_chunk(Ids, Hs, Cs, Ns) ==
  \E m \in Ids, hasType \in Hs, c \in Cs, n \in Ns :
    LET event == E_agent_message_chunk(m, AuthorOf(m),
                                       EventType(AuthorOf(m), hasType), c, n)
    IN Accepts(event) /\ Dispatch(event)
ev_agent_message(Ids, Hs, Cs, Ns) ==
  \E m \in Ids, hasType \in Hs, c \in Cs, n \in Ns :
    LET event == E_agent_message(m, AuthorOf(m),
                                 EventType(AuthorOf(m), hasType), c, n)
    IN Accepts(event) /\ Dispatch(event)
ev_conversation_round_complete ==
  LET event == E_conversation_round_complete(1)
  IN Accepts(event) /\ Dispatch(event)
ev_tool_use ==
  LET event == E_tool_use("web_search", "query")
  IN Accepts(event) /\ Dispatch(event)
ev_tool_result(Tss) ==
  \E ts \in Tss :
    LET event == E_tool_result("web_search", "r1", ts)
    IN Accepts(event) /\ Dispatch(event)
ev_unknown ==
  LET event == E_unknown("stop_acknowledged")
  IN Accepts(event) /\ Dispatch(event)

(***************************************************************************)
(* Spec: the agents' life cycle under the status, delegation and stream   *)
(* events; the message events are part of SpecRounds.                      *)
(***************************************************************************)
Next ==
  \/ ev_init({"c1"})
  \/ ev_agent_status({"agent1"}, BOOLEAN, AgentStatus, {None})
  \/ ev_delegation
  \/ ev_sub_agent_response({"agent1"})
  \/ ev_complete
  \/ ev_stream_end
  \/ ev_cancelled
  \/ ev_error({"boom"})
  \/ ev_agent_thinking({"agent1"}, BOOLEAN, {1})
  \/ ev_conversation_round_complete
  \/ ev_unknown

Spec == Init /\ [][Next]_vars

(***************************************************************************)
(* SpecRounds: the round aggregator under chunks and completion markers    *)
(* of two agents, in any order of messages and round numbers.              *)
(***************************************************************************)
NextRounds ==
  \/ ev_init({"c1"})
  \/ ev_agent_status({"agent1"}, {TRUE}, {"thinking"}, {None})
  \/ ev_agent_message_chunk({"m1"}, {TRUE}, {"Hel", "lo", ""}, 0..2)
  \/ ev_agent_message_chunk({"m2"}, BOOLEAN, {"lo"}, 1..2)
  \/ ev_agent_message({"m1"}, {TRUE}, {"lo", ""}, 1..2)
  \/ ev_stream_end

SpecRounds == Init /\ [][NextRounds]_vars

(***************************************************************************)
(* SpecTools: the primary message and its tool usage.                      *)
(***************************************************************************)
NextTools ==
  \/ ev_init({"c1"})
  \/ ev_stream({"lo", ""})
  \/ ev_tool_use
  \/ ev_tool_result({"error", None})
  \/ ev_stream_end
  \/ ev_cancelled

SpecTools == Init /\ [][NextTools]_vars

(***************************************************************************)
(* SpecContent: messages and rounds across two conversations, with the     *)
(* restore from sessionStorage that init makes.                            *)
(***************************************************************************)
NextContent ==
  \/ ev_init(ConvIds)
  \/ ev_stream({"lo"})
  \/ ev_agent_message_chunk(MessageIds, {FALSE}, {"lo"}, {1})
  \/ ev_cancelled

SpecContent == Init /\ [][NextContent]_vars

(***************************************************************************)
(* SpecStores: the two normalized stores under the events that add to      *)
(* them, the restore that init makes, and the actions of the slices that   *)
(* remove from them.                                                       *)
(***************************************************************************)
\* an action of a slice called by the application, outside any event
Applied(s) ==
  /\ Store(s)
  /\ trace' = Off
  /\ UNCHANGED <<ended, finished, service>>

store_removeAgent ==
  \E id \in DOMAIN agents.byId \cup {"agent1"} : Applied(removeAgent(get, id))
store_clearAgents == agents.allIds # <<>> /\ Applied(clearAgents(get))
store_deleteMessage ==
  \E id \in DOMAIN messages.byId \cup {generateMessageId(1)} :
    Applied(deleteMessage(get, id))
store_clearMessages == messages.allIds # <<>> /\ Applied(clearMessages(get))

NextStores ==
  \/ ev_init(ConvIds)
  \/ ev_stream({"lo"})
  \/ ev_agent_status({"agent1"}, {TRUE}, {"thinking", "complete"}, {None})
  \/ store_removeAgent
  \/ store_clearAgents
  \/ store_deleteMessage
  \/ store_clearMessages

SpecStores == Init /\ [][NextStores]_vars

(***************************************************************************)
(* The WebSocketService under every interleaving of its methods, the       *)
(* callbacks of its sockets and its timers.  A step is one method or one   *)
(* callback run to completion.                                             *)
(***************************************************************************)
\* variant: a step of the service ends the stream in the store
Commit_endsStream(w) ==
  /\ service' = w
  /\ error' = IF w.notified THEN w.wsError ELSE error
  /\ isStreaming' = FALSE
  /\ streamingMessageId' = None
  /\ UNCHANGED <<agents, messages, agentConversations, conversationId,
                 isProcessing, sessionStorage, agentSeq, msgSeq, trace,
                 ended, finished>>

\* When an error observer has run, the effect of the App on the hook's
\* error copies its text to the session error state.
Commit(w) ==
  /\ service' = w
  /\ error' = IF w.notified THEN w.wsError ELSE error
  /\ UNCHANGED <<agents, messages, agentConversations, conversationId,
                 isProcessing, isStreaming, streamingMessageId,
                 sessionStorage, agentSeq, msgSeq, trace, ended, finished>>

\* connect() called by the application
call_connect ==
  LET w == [connect(called(service)) EXCEPT !.gaveUp = FALSE]
  IN ServiceWithinBounds(w) /\ Commit(w)
call_disconnect ==
  LET w == disconnect(called(service))
  IN ServiceWithinBounds(w) /\ Commit(w)
call_subscribe(Ids) ==
  \E cid \in Ids :
    LET w == subscribe(called(service), cid) IN ServiceWithinBounds(w) /\ Commit(w)
call_unsubscribe(Ids) ==
  \E cid \in Ids :
    LET w == unsubscribe(called(service), cid) IN ServiceWithinBounds(w) /\ Commit(w)
call_sendTask(Ids) ==
  \E cid \in Ids :
    LET w == sendTask(called(service), cid) IN ServiceWithinBounds(w) /\ Commit(w)

\* the connection of socket s is established
socket_onopen ==
  \E s \in DOMAIN service.sockets :
    LET w == onopen(called(service), s)
    IN /\ service.sockets[s] = "connecting"
       /\ ServiceWithinBounds(w)
       /\ Commit(w)

\* socket s is closed: by the server, by the network, or at the end of the
\* closing handshake that close() began
socket_onclose ==
  \E s \in DOMAIN service.sockets :
    LET w == onclose(called(service), s)
    IN /\ service.sockets[s] \in {"connecting", "open", "closing", "failed"}
       /\ ServiceWithinBounds(w)
       /\ Commit(w)

\* the connection of socket s fails
socket_onerror ==
  \E s \in DOMAIN service.sockets :
    LET w == onerror(called(service), s)
    IN /\ service.sockets[s] \in {"connecting", "open"}
       /\ ServiceWithinBounds(w)
       /\ Commit(w)

\* the frame is dropped, or kept by the service, or forwarded to
\* handleStreamEvent by the observer that useWebSocket registers
Receives(r) ==
  /\ ServiceWithinBounds(r.service)
  /\ r.forwarded # NoEvent => Accepts(r.forwarded)
Deliver(r) ==
  IF r.forwarded = NoEvent THEN Commit(r.service)
  ELSE Handled(r.forwarded) /\ service' = r.service

\* a frame arrives on the open socket s
socket_onmessage(Frames) ==
  \E s \in DOMAIN service.sockets, data \in Frames :
    LET r == onmessage(called(service), data)
    IN /\ service.sockets[s] = "open"
       /\ Receives(r)
       /\ Deliver(r)

timer_reconnect ==
  \E t \in service.timers :
    LET w == reconnect(called(service), t) IN ServiceWithinBounds(w) /\ Commit(w)

timer_heartbeat ==
  LET w == heartbeat(called(service))
  IN /\ service.heartbeatTimer
     /\ ServiceWithinBounds(w)
     /\ Commit(w)

\* the same callbacks in the runs that study the delay, where the cap of the
\* configuration bounds the sockets
RetryWithinBounds(w) ==
  /\ Len(w.sockets) <= MaxRetries + 2
  /\ w.fatalErrors <= MaxNotified
retry_connect ==
  LET w == [connect(called(service)) EXCEPT !.gaveUp = FALSE]
  IN service.ws = 0 /\ RetryWithinBounds(w) /\ Commit(w)
retry_onopen ==
  \E s \in DOMAIN service.sockets :
    LET w == onopen(called(service), s)
    IN /\ service.sockets[s] = "connecting"
       /\ RetryWithinBounds(w)
       /\ Commit(w)
retry_onclose ==
  \E s \in DOMAIN service.sockets :
    LET w == onclose(called(service), s)
    IN /\ service.sockets[s] \in {"connecting", "open"}
       /\ RetryWithinBounds(w)
       /\ Commit(w)
retry_timer ==
  \E t \in service.timers :
    LET w == reconnect(called(service), t) IN RetryWithinBounds(w) /\ Commit(w)

(***************************************************************************)
(* SpecRetry: a connection that is lost and made again, up to the cap.     *)
(***************************************************************************)
NextRetry ==
  \/ retry_connect
  \/ retry_onopen
  \/ retry_onclose
  \/ retry_timer

SpecRetry == InitRetry /\ [][NextRetry]_vars

(***************************************************************************)
(* SpecRegistry: the registry and the connection id across disconnections, *)
(* losses and new connections.                                             *)
(***************************************************************************)
NextRegistry ==
  \/ call_connect
  \/ call_disconnect
  \/ call_subscribe({"c1"})
  \/ socket_onopen
  \/ socket_onclose
  \/ timer_reconnect
  \/ socket_onmessage({Wire(E_unknown("connected"))})

SpecRegistry == Init /\ [][NextRegistry]_vars

(***************************************************************************)
(* SpecReconnect: connections, disconnections and the reconnect timers.    *)
(***************************************************************************)
NextReconnect ==
  \/ call_connect
  \/ call_disconnect
  \/ socket_onopen
  \/ socket_onclose
  \/ timer_reconnect

SpecReconnect == InitService /\ [][NextReconnect]_vars

(***************************************************************************)
(* SpecFrames: the frames the service sends, across reconnections.         *)
(***************************************************************************)
NextFrames ==
  \/ call_connect
  \/ call_subscribe(ConvIds)
  \/ call_unsubscribe({"c1"})
  \/ call_sendTask({"c1"})
  \/ socket_onopen
  \/ socket_onclose
  \/ timer_reconnect
  \/ timer_heartbeat

SpecFrames == Init /\ [][NextFrames]_vars

(***************************************************************************)
(* SpecSession: the tasks of a session over an open connection: the frames *)
(* of the server, well-formed or not, reach the store through the service. *)
(***************************************************************************)
SessionFrames ==
  {Unparsable, Wire(E_unknown("pong")), Wire(E_error("boom")),
   Wire(E_init("c1")), Wire(E_stream("lo")), Wire(E_complete),
   Wire(E_unknown("stop_acknowledged"))}

NextSession ==
  \/ call_connect
  \/ socket_onopen
  \/ socket_onmessage(SessionFrames)

SpecSession == Init /\ [][NextSession]_vars

(***************************************************************************)
(* SpecTransport: a stream in progress while the connection fails, is      *)
(* made again by the reconnect timer and replays its subscriptions.        *)
(***************************************************************************)
TransportFrames == {Wire(E_init("c1")), Wire(E_stream("lo"))}

NextTransport ==
  \/ call_connect
  \/ call_subscribe({"c1"})
  \/ socket_onopen
  \/ socket_onclose
  \/ timer_reconnect
  \/ socket_onmessage(TransportFrames)

SpecTransport == Init /\ [][NextTransport]_vars

(***************************************************************************)
(* SpecErrors: what the error observers are told while connections fail    *)
(* and are made again.                                                     *)
(***************************************************************************)
NextErrors ==
  \/ call_connect
  \/ socket_onopen
  \/ socket_onerror
  \/ socket_onclose
  \/ timer_reconnect

SpecErrors == InitService /\ [][NextErrors]_vars

TypeOK ==
  /\ isStreaming \in BOOLEAN
  /\ isProcessing \in BOOLEAN
  /\ conversationId \in ConvIds \cup {""}

(***************************************************************************)
(* Properties of the agent lifecycle, checked under Spec.  A property      *)
(* about "any event" is stated on the store handleStreamEvent would leave  *)
(* from every reachable state, for every event of the sets below.          *)
(***************************************************************************)
StatusEvents ==
  {E_agent_status(a, EventType(a, hasType), st, m) :
     a \in AgentIds, hasType \in BOOLEAN, st \in AgentStatus,
     m \in {None, "working"}}
ThinkingEvents ==
  {E_agent_thinking(a, EventType(a, hasType), n) :
     a \in AgentIds, hasType \in BOOLEAN, n \in 0..2}
ChunkEvents ==
  {E_agent_message_chunk(m, AuthorOf(m), EventType(AuthorOf(m), hasType), c, n) :
     m \in MessageIds, hasType \in BOOLEAN, c \in {"lo", ""}, n \in 0..2}
MessageEvents ==
  {E_agent_message(m, AuthorOf(m), EventType(AuthorOf(m), hasType), c, n) :
     m \in MessageIds, hasType \in BOOLEAN, c \in {"lo", ""}, n \in 0..2}
OtherEvents ==
  {E_init(c) : c \in ConvIds}
    \cup {E_delegation(<<[agentType |-> t, query |-> "q"]>>) : t \in AgentTypes}
    \cup {E_sub_agent_response(a) : a \in AgentIds}
    \cup {E_stream(c) : c \in {"lo", ""}}
    \cup {E_error(e) : e \in {"boom", ""}}
    \cup {E_tool_result("web_search", "r1", ts) : ts \in ToolStatus \cup {None}}
    \cup {E_complete, E_stream_end, E_cancelled,
          E_conversation_round_complete(1), E_tool_use("web_search", "query"),
          E_unknown("stop_acknowledged")}
AnyEvent ==
  StatusEvents \cup ThinkingEvents \cup ChunkEvents \cup MessageEvents
    \cup OtherEvents

statusOf(s, a) == s.agents.byId[a].status

\* C1: an agent that has once been complete or error is not moved to
\* thinking or responding by any later agent_status or agent_thinking event,
\* whatever its payload.
C1_StatusNeverRegresses ==
  \A a \in finished \cap DOMAIN agents.byId :
    \A ev \in StatusEvents \cup ThinkingEvents :
      LET s == handleStreamEvent(get, ev)
      IN (a \in DOMAIN s.agents.byId /\ statusOf(s, a) \in Active)
           => statusOf(s, a) = statusOf(get, a)

\* the status changes an event may make
AllowedChanges ==
  {<<"idle", "thinking">>, <<"thinking", "responding">>,
   <<"thinking", "complete">>, <<"thinking", "error">>,
   <<"responding", "complete">>, <<"responding", "error">>}

\* C2: no event changes the status of an agent that is complete or error,
\* and every change of status an event makes is idle to thinking, thinking
\* to responding, or thinking or responding to complete or error.
C2_TerminalAbsorbing ==
  \A a \in DOMAIN agents.byId :
    \A ev \in AnyEvent :
      LET s == handleStreamEvent(get, ev)
      IN (a \in DOMAIN s.agents.byId /\ statusOf(s, a) # statusOf(get, a))
           => /\ statusOf(get, a) \notin Terminal
              /\ <<statusOf(get, a), statusOf(s, a)>> \in AllowedChanges

StaleEvents ==
  {E_agent_status(a, EventType(a, hasType), "thinking", m) :
     a \in AgentIds, hasType \in BOOLEAN, m \in {None, "working"}}

\* C3: after a stream_end and before the next init, an agent_status event
\* with status thinking, for a known or an unknown agent, leaves agents,
\* messages, rounds, isStreaming and isProcessing as they were.
C3_StaleStatusSuppressed ==
  "stream_end" \in ended =>
    \A ev \in StaleEvents :
      LET s == handleStreamEvent(get, ev)
      IN /\ s.agents = agents
         /\ s.messages = messages
         /\ s.agentConversations = agentConversations
         /\ s.isStreaming = isStreaming
         /\ s.isProcessing = isProcessing

\* the stale event has just been processed, after init, thinking, stream_end
C3_Witness ==
  /\ Len(trace) = 4
  /\ Follows(trace, StaleKnown)
  /\ "stream_end" \in ended
  /\ "agent1" \in DOMAIN agents.byId

\* C4: from a complete, stream_end or cancelled event until the next init,
\* isStreaming is false and no agent is thinking or responding.
C4_StreamEndAuthoritative ==
  ended \cap {"complete", "stream_end", "cancelled"} # {} =>
    /\ ~isStreaming
    /\ \A a \in DOMAIN agents.byId : statusOf(get, a) \notin Active

\* C9: from the empty store, a delegation with one query of type X and then
\* cancelled leave exactly one agent, of type X, with status error and
\* currentMessage "Cancelled"; the agent is complete at neither step.
C9_DelegationCancelled ==
  (Len(trace) \in 1..2 /\ Follows(trace, DelegateCancel)) =>
    /\ \A a \in DOMAIN agents.byId : statusOf(get, a) # "complete"
    /\ Len(trace) = 2 =>
         /\ Len(agents.allIds) = 1
         /\ Cardinality(DOMAIN agents.byId) = 1
         /\ \A a \in DOMAIN agents.byId :
              /\ agents.byId[a].agentType = trace[1].queries[1].agentType
              /\ agents.byId[a].status = "error"
              /\ agents.byId[a].currentMessage = "Cancelled"

C9_Witness ==
  /\ Len(trace) = 2
  /\ Follows(trace, DelegateCancel)
  /\ agents.allIds # <<>>

(***************************************************************************)
(* Properties of the round aggregator, checked under SpecRounds.           *)
(***************************************************************************)
\* the places <<round, index>> of the AgentMessages with this id
copiesOf(rounds, messageId) ==
  {p \in UNION {{<<r, i>> : i \in DOMAIN rounds[r].messages} :
                  r \in DOMAIN rounds} :
     rounds[p[1]].messages[p[2]].messageId = messageId}

contentAt(rounds, p) == rounds[p[1]].messages[p[2]].content

\* C5: while a stream is active, two agent_message_chunk events with the
\* same messageId and contents c1 then c2 leave the rounds the first event
\* and one append of c2 would leave: exactly one AgentMessage has that id
\* and its content ends with c1 followed by c2, whatever round numbers the
\* two events carry.
C5_ChunkCreationIdempotent ==
  isStreaming =>
    \A m \in MessageIds, hasType \in BOOLEAN, c1 \in {"Hel", "lo"},
       c2 \in {"lo"}, n1 \in 0..2, n2 \in 0..2 :
      LET a == AuthorOf(m)
          e1 == E_agent_message_chunk(m, a, EventType(a, hasType), c1, n1)
          e2 == E_agent_message_chunk(m, a, EventType(a, hasType), c2, n2)
          s1 == handleStreamEvent(get, e1)
          s2 == handleStreamEvent(s1, e2)
          before == copiesOf(agentConversations, m)
          after == copiesOf(s2.agentConversations, m)
      IN /\ s2.agentConversations
              = appendToAgentMessage(s1, m, c2).agentConversations
         /\ Cardinality(after) = 1
         /\ \A p \in after :
              \/ /\ before = {}
                 /\ contentAt(s2.agentConversations, p) = c1 \o c2
              \/ \E q \in before :
                   contentAt(s2.agentConversations, p)
                     = contentAt(agentConversations, q) \o c1 \o c2

\* C6: no two AgentMessages, in the same round or in different rounds,
\* have the same messageId.
C6_MessageIdsUnique ==
  \A m \in MessageIds : Cardinality(copiesOf(agentConversations, m)) <= 1

\* C7: the rounds are in strictly ascending order of roundNumber, so no
\* two rounds have the same roundNumber.
C7_RoundsAscending ==
  \A i, j \in DOMAIN agentConversations :
    i < j => agentConversations[i].roundNumber
               < agentConversations[j].roundNumber

\* round 2 was opened first, round 1 after it
C7_Witness ==
  /\ Len(trace) = 3
  /\ Follows(trace, LateRound)
  /\ Len(agentConversations) = 2

\* C8: init, agent_status(agent1 thinking), chunks "Hel" and "lo" of m1, the
\* completion marker of m1 and stream_end leave exactly one AgentMessage m1,
\* with content "Hello", and agent1 complete.
C8_HelloScenario ==
  (Len(trace) = 6 /\ Follows(trace, Hello)) =>
    /\ Cardinality(copiesOf(agentConversations, "m1")) = 1
    /\ \A p \in copiesOf(agentConversations, "m1") :
         contentAt(agentConversations, p) = "Hello"
    /\ "agent1" \in DOMAIN agents.byId
    /\ agents.byId["agent1"].status = "complete"

C8_Witness ==
  /\ Len(trace) = 6
  /\ Follows(trace, Hello)
  /\ ~isStreaming

C12_StreamEndForcesComplete ==
  \A ev \in {E_complete, E_stream_end} :
    LET s == handleStreamEvent(get, ev)
    IN /\ ~s.isStreaming
       /\ s.streamingMessageId = None
       /\ ~s.isProcessing
       /\ DOMAIN s.agents.byId = DOMAIN agents.byId
       /\ \A a \in DOMAIN agents.byId :
            statusOf(s, a) = IF statusOf(get, a) \in Terminal
                             THEN statusOf(get, a) ELSE "complete"

\* stream_end has just been processed with agent1 thinking
C12_Witness ==
  /\ Len(trace) = 3
  /\ Follows(trace, StaleKnown)
  /\ "agent1" \in DOMAIN agents.byId
  /\ agents.byId["agent1"].status = "complete"
  /\ ~isStreaming

(***************************************************************************)
(* Properties of message content, checked under SpecContent.               *)
(***************************************************************************)
\* the Messages of store s are those of store t, with the same content
sameMessages(s, t) ==
  /\ s.messages.allIds = t.messages.allIds
  /\ DOMAIN s.messages.byId = DOMAIN t.messages.byId
  /\ \A id \in DOMAIN t.messages.byId :
       s.messages.byId[id].content = t.messages.byId[id].content

\* the AgentMessages of store s are those of store t, with the same content
sameAgentMessages(s, t) ==
  /\ Len(s.agentConversations) = Len(t.agentConversations)
  /\ \A r \in DOMAIN t.agentConversations :
       /\ s.agentConversations[r].roundNumber = t.agentConversations[r].roundNumber
       /\ Len(s.agentConversations[r].messages)
            = Len(t.agentConversations[r].messages)
       /\ \A i \in DOMAIN t.agentConversations[r].messages :
            /\ s.agentConversations[r].messages[i].messageId
                 = t.agentConversations[r].messages[i].messageId
            /\ s.agentConversations[r].messages[i].content
                 = t.agentConversations[r].messages[i].content

\* C13: a cancelled event or an error event removes no Message and no
\* AgentMessage and leaves the content of each exactly as it was.
C13_PartialResultsKept ==
  \A ev \in {E_cancelled} \cup {E_error(e) : e \in {"boom", ""}} :
    LET s == handleStreamEvent(get, ev)
    IN sameMessages(s, get) /\ sameAgentMessages(s, get)

\* a stream with a partial answer and a partial agent message was cancelled
C13_Witness ==
  /\ "cancelled" \in ended
  /\ messages.allIds # <<>>
  /\ agentConversations # <<>>
  /\ ~isStreaming

IsPrefix(p, c) == Len(p) <= Len(c) /\ SubSeq(c, 1, Len(p)) = p

\* C14: no event, init included, removes a Message or an AgentMessage, and
\* the content an event leaves has the content before it as a prefix.
C14_ContentAppendOnly ==
  \A ev \in AnyEvent :
    LET s == handleStreamEvent(get, ev)
    IN /\ \A id \in DOMAIN messages.byId :
            /\ id \in DOMAIN s.messages.byId
            /\ IsPrefix(messages.byId[id].content, s.messages.byId[id].content)
       /\ \A m \in MessageIds :
            \A q \in copiesOf(agentConversations, m) :
              \E p \in copiesOf(s.agentConversations, m) :
                IsPrefix(contentAt(agentConversations, q),
                         contentAt(s.agentConversations, p))

\* the agent ids of the messages of a round
agentsOf(round) == {round.messages[i].agentId : i \in DOMAIN round.messages}
\* the members of the round with this number, {} when there is none
membersOf(rounds, n) ==
  UNION {{rounds[r].participatingAgents[i] :
            i \in DOMAIN rounds[r].participatingAgents} :
           r \in {r \in DOMAIN rounds : rounds[r].roundNumber = n}}

\* C16: each round's participatingAgents is the set of the agentIds of its
\* messages, without duplicates, and no event, init included, takes a
\* member from the round of a given number.
C16_ParticipantsOfRound ==
  /\ \A r \in DOMAIN agentConversations :
       LET round == agentConversations[r]
       IN /\ {round.participatingAgents[i] :
                 i \in DOMAIN round.participatingAgents} = agentsOf(round)
          /\ Len(round.participatingAgents) = Cardinality(agentsOf(round))
  /\ \A ev \in AnyEvent :
       LET s == handleStreamEvent(get, ev)
       IN \A n \in 0..2 :
            membersOf(agentConversations, n)
              \subseteq membersOf(s.agentConversations, n)

(***************************************************************************)
(* Properties of an agent's record, checked under Spec.                    *)
(***************************************************************************)
\* C15: endTime is unset while the agent is idle, thinking or responding,
\* the first event that leaves the agent complete or error stamps it, an
\* event that creates the agent in such a status included, and no later
\* event changes it.
C15_EndTimeSetOnce ==
  /\ \A a \in DOMAIN agents.byId :
       agents.byId[a].endTime # 0 <=> statusOf(get, a) \in Terminal
  /\ \A ev \in AnyEvent :
       LET s == handleStreamEvent(get, ev)
       IN \A a \in DOMAIN agents.byId \cap DOMAIN s.agents.byId :
            agents.byId[a].endTime # 0
              => s.agents.byId[a].endTime = agents.byId[a].endTime

(***************************************************************************)
(* The streaming message id, checked under SpecTools.                      *)
(***************************************************************************)
\* C17: after an init event and after a complete, stream_end, cancelled or
\* error event, streamingMessageId is null.
C17_StreamingIdReset ==
  \A ev \in {E_init(c) : c \in ConvIds}
            \cup {E_complete, E_stream_end, E_cancelled}
            \cup {E_error(e) : e \in {"boom", ""}} :
    handleStreamEvent(get, ev).streamingMessageId = None

(***************************************************************************)
(* The completion marker, checked under SpecRounds.                        *)
(***************************************************************************)
\* C18: an agent_message event with messageId, agentId and the agent's
\* type leaves that agent in the store with status complete, whether the
\* agent was there before the event or the event creates it.
C18_MarkerCompletesAgent ==
  \A m \in MessageIds, c \in {"lo", ""}, n \in 0..2 :
    LET a == AuthorOf(m)
        s == handleStreamEvent(get, E_agent_message(m, a, TypeOf(a), c, n))
    IN /\ a \in DOMAIN s.agents.byId
       /\ statusOf(s, a) = "complete"

(***************************************************************************)
(* Properties of the WebSocketService.                                     *)
(***************************************************************************)
subscribeFrames(subs) == {Frame("subscribe", subs[i]) : i \in DOMAIN subs}
framesOf(frames) == {frames[i] : i \in DOMAIN frames}
opens(s) ==
  /\ s \in DOMAIN service.sockets
  /\ service.sockets[s] = "connecting"
  /\ service'.sockets[s] = "open"
closes(s) ==
  /\ s \in DOMAIN service.sockets
  /\ service.sockets[s] # "closed"
  /\ service'.sockets[s] = "closed"

\* C11: nothing is sent on a connection before it opens, and when the
\* service's connection opens, the frames sent on it are exactly one
\* subscribe frame for every subscription of the registry, in any order:
\* no ping, task, stop or unsubscribe frame precedes them.
C11_ReconnectResubscribes ==
  /\ [](\A s \in DOMAIN service.sockets :
          service.sockets[s] = "connecting" => service.outbound[s] = <<>>)
  /\ [][\A s \in 1..MaxSockets :
          (opens(s) /\ service.ws = s) =>
            /\ Len(service'.outbound[s]) = Len(service.subscriptions)
            /\ framesOf(service'.outbound[s])
                 = subscribeFrames(service.subscriptions)]_vars

\* the connection was lost with two subscriptions, the reconnect timer has
\* made a new connection, and it has opened
C11_Witness ==
  /\ service.ws > 1
  /\ service.sockets[service.ws] = "open"
  /\ service.sockets[1] = "closed"
  /\ service.timerSeq >= 1
  /\ Len(service.subscriptions) = 2
  /\ Len(service.outbound[service.ws]) >= 2

\* C20: in every state that connect(), disconnect() and the callbacks can
\* reach, disconnect() is idempotent (a second call changes nothing) and
\* leaves no heartbeat timer and no reconnect timer pending; and the close
\* event of a socket that disconnect() closed never schedules a reconnect
\* attempt and never increments the attempt counter.
C20_DisconnectIntentional ==
  /\ [](LET w == disconnect(service)
        IN /\ disconnect(w) = w
           /\ ~w.heartbeatTimer
           /\ w.reconnectTimer = 0
           /\ w.timers = {})
  /\ [][\A s \in service.closedByDisconnect :
          closes(s) =>
            /\ service'.timerSeq = service.timerSeq
            /\ service'.timers = service.timers
            /\ service'.reconnectAttempts = service.reconnectAttempts]_vars

\* the three parts of C20 apart
C20_Idempotent == disconnect(disconnect(service)) = disconnect(service)
C20_NoTimerLeft ==
  LET w == disconnect(service)
  IN ~w.heartbeatTimer /\ w.reconnectTimer = 0 /\ w.timers = {}
C20_CloseEventIgnored ==
  [][\A s \in service.closedByDisconnect :
       closes(s) =>
         /\ service'.timerSeq = service.timerSeq
         /\ service'.reconnectAttempts = service.reconnectAttempts]_vars

\* a close event that is not intentional, with auto-reconnect enabled
unintentionalClose ==
  /\ \E s \in 1..MaxSockets : closes(s)
  /\ ~service.isIntentionallyClosed
  /\ service.autoReconnect

\* the parts of C19 apart
C19_CountCapped == service.reconnectAttempts <= maxReconnectAttempts
C19_ScheduledBelowCap ==
  [][service'.timerSeq > service.timerSeq =>
       /\ unintentionalClose
       /\ service.reconnectAttempts < maxReconnectAttempts
       /\ service'.reconnectAttempts = service.reconnectAttempts + 1]_vars
C19_OpenResets ==
  [][(\E s \in 1..MaxSockets : opens(s)) => service'.reconnectAttempts = 0]_vars
C19_FatalAtCap ==
  [][(unintentionalClose /\ service.reconnectAttempts = maxReconnectAttempts) =>
       /\ service'.fatalErrors = service.fatalErrors + 1
       /\ service'.timerSeq = service.timerSeq
       /\ service'.timers = service.timers]_vars
C19_NoAttemptAfterFatal ==
  [][(service.gaveUp /\ service'.gaveUp) =>
       Len(service'.sockets) = Len(service.sockets)]_vars

\* C19: reconnect is capped.  The count of attempts never exceeds
\* maxReconnectAttempts and an open resets it to zero; a reconnect timer is
\* set only by an unintentional close with auto-reconnect enabled and the
\* count below the cap; at the cap an unintentional close notifies a fatal
\* error and sets no timer; and after the fatal error no connection is
\* attempted until connect() is called.
C19_ReconnectCapped ==
  /\ []C19_CountCapped
  /\ C19_ScheduledBelowCap
  /\ C19_OpenResets
  /\ C19_FatalAtCap
  /\ C19_NoAttemptAfterFatal

\* the four methods of the service that send a frame, on the service w
outcomes(w) ==
  {subscribe(called(w), cid) : cid \in ConvIds}
    \cup {unsubscribe(called(w), cid) : cid \in ConvIds}
    \cup {sendTask(called(w), cid) : cid \in ConvIds}
    \cup {stopGeneration(called(w), cid) : cid \in ConvIds}

\* C21: a frame goes out only on the service's socket and only when it is
\* open; and in every state where the socket is absent or not open,
\* subscribe, unsubscribe, sendTask and stopGeneration each throw to the
\* caller and transmit no frame.
C21_SendChokePoint ==
  /\ [](~isConnected(service) =>
          \A w \in outcomes(service) :
            w.threw /\ w.outbound = service.outbound)
  /\ [][\A s \in 1..MaxSockets :
          (s \in DOMAIN service'.outbound
             /\ service'.outbound[s] #
                  (IF s \in DOMAIN service.outbound
                   THEN service.outbound[s] ELSE <<>>)) =>
            (service'.ws = s /\ service'.sockets[s] = "open")]_vars

\* a method has thrown on a socket that exists and is not open
C21_Witness ==
  /\ service.threw
  /\ service.ws # 0
  /\ service.sockets[service.ws] \in {"connecting", "closed"}
  /\ service.subscriptions # <<>>

\* C22: recoverable transport failures never reach the UI.  A step of the
\* transport (no frame of the server is received in it) invokes an error
\* observer, and so sets the hook's and the session's error state, only
\* when it is an unintentional close at the reconnect cap.
C22_RecoverableNotSurfaced ==
  [][(service'.notified /\ service'.inbound = "") =>
       /\ unintentionalClose
       /\ service.reconnectAttempts = maxReconnectAttempts
       /\ service'.timerSeq = service.timerSeq]_vars

\* the part of C22 that holds: a close that schedules a reconnect attempt
\* notifies no error observer
C22_ScheduledCloseSilent ==
  [][((\E s \in 1..MaxSockets : closes(s))
        /\ service'.timerSeq > service.timerSeq) =>
       (~service'.notified /\ error' = error)]_vars

\* C23: protocol errors are dropped.  A step that receives a frame that
\* does not parse, or an event of a type the dispatcher does not know
\* (stop_acknowledged), changes no message, agent, round, isStreaming or
\* isProcessing value, throws nothing, invokes no error observer and leaves
\* the sockets as they are: the socket is still open for the next frame.
C23_ProtocolErrorsDropped ==
  [][service'.inbound \in {"unparsable", "stop_acknowledged"} =>
       /\ UNCHANGED <<messages, agents, agentConversations, isStreaming,
                      isProcessing, streamingMessageId, error>>
       /\ ~service'.threw
       /\ ~service'.notified
       /\ service'.sockets = service.sockets
       /\ service'.ws = service.ws
       /\ \E s \in DOMAIN service'.sockets : service'.sockets[s] = "open"]_vars

\* such a frame has been received in the middle of a stream
C23_Witness ==
  /\ service.inbound \in {"unparsable", "stop_acknowledged"}
  /\ isStreaming
  /\ isProcessing
  /\ messages.allIds # <<>>

\* the store after the frame has arrived on an open socket: the event is
\* handled if the service forwards it, and the text an error observer was
\* given is copied to the session error state
received(data) ==
  LET r == onmessage(called(service), data)
  IN IF r.forwarded # NoEvent THEN handleStreamEvent(get, r.forwarded)
     ELSE [get EXCEPT !.error = IF r.service.notified
                                THEN r.service.wsError ELSE @]
EnderFrames ==
  {Wire(E_complete), Wire(E_stream_end), Wire(E_cancelled),
   Wire(E_error("boom"))}

\* C24: every task terminates on the client.  When a task is in progress
\* and one of the frames complete, stream_end, cancelled and error arrives
\* on the open connection, isProcessing and isStreaming are false once the
\* frame is handled, and for the error frame the session error state holds
\* the text of the server.
C24_TaskTerminates ==
  (isProcessing /\ isConnected(service)) =>
    \A data \in EnderFrames :
      LET s == received(data)
      IN /\ ~s.isProcessing
         /\ ~s.isStreaming
         /\ data.message.type = "error" => s.error = "boom"

\* the parts of C24 apart: the three frames that reach the dispatcher, and
\* the text of the error frame
C24_EndersButError ==
  (isProcessing /\ isConnected(service)) =>
    \A data \in EnderFrames \ {Wire(E_error("boom"))} :
      ~received(data).isProcessing /\ ~received(data).isStreaming
C24_ErrorText ==
  isConnected(service) => received(Wire(E_error("boom"))).error = "boom"

\* C25: in every state, stopGeneration called with the empty conversation
\* id throws to the caller and transmits no frame.
C25_StopWithoutConversation ==
  LET w == stopGeneration(called(service), "")
  IN w.threw /\ w.outbound = service.outbound

\* what the App does instead: without a conversation it calls nothing, so
\* nothing is thrown and nothing is transmitted
C25_AppSkipsSilently ==
  LET w == handleStopGeneration(called(service), "")
  IN ~w.threw /\ w.outbound = service.outbound

\* a step of the transport: a socket is made, opens, fails or closes, a
\* reconnect timer is set or fires, or the subscriptions are replayed
transportStep ==
  /\ service'.inbound = ""
  /\ \/ service'.sockets # service.sockets
     \/ service'.timers # service.timers
     \/ service'.outbound # service.outbound
sessionState ==
  <<messages, agents, agentConversations, streamingMessageId, isStreaming,
    isProcessing>>

\* C26: transport failures do not corrupt the state.  A step of the
\* transport leaves messages, agents, rounds, the streaming message id,
\* isStreaming and isProcessing unchanged, and a step that changes one of
\* them has received a stream event of the server.
C26_TransportKeepsState ==
  /\ [][transportStep => UNCHANGED sessionState]_vars
  /\ [][sessionState' # sessionState =>
          service'.inbound \notin
            ({"", "unparsable", "error"} \cup ControlTypes)]_vars

\* in the middle of a stream the connection was lost, the reconnect timer
\* has made a new one, and the subscription has been replayed on it
C26_Witness ==
  /\ service.ws > 1
  /\ service.sockets[service.ws] = "open"
  /\ service.sockets[1] = "closed"
  /\ service.timerSeq >= 1
  /\ service.outbound[service.ws] # <<>>
  /\ isStreaming
  /\ isProcessing
  /\ streamingMessageId # None
  /\ messages.allIds # <<>>

(***************************************************************************)
(* Properties of single events, stated on the store that handleStreamEvent *)
(* leaves from every reachable state.                                      *)
(***************************************************************************)
ToolResultEvents ==
  {E_tool_result("web_search", r, ts) :
     r \in {"r1", "r2"}, ts \in {"complete", "error", None}}

\* C27: a tool_result event changes no ToolUsage entry but a pending one of
\* the active streaming message, and there the last one: an entry that is
\* complete or error is never overwritten, and nothing is changed when the
\* active message has no pending entry.
C27_OnlyPendingUpdated ==
  \A ev \in ToolResultEvents :
    LET s == handleStreamEvent(get, ev)
    IN \A id \in DOMAIN messages.byId :
         LET old == messages.byId[id].toolUsage
             new == s.messages.byId[id].toolUsage
         IN /\ Len(new) = Len(old)
            /\ \A i \in DOMAIN old :
                 new[i] # old[i] =>
                   /\ id = streamingMessageId
                   /\ old[i].status = "pending"
                   /\ \A j \in DOMAIN old : j > i => old[j].status # "pending"

\* the part of C27 that holds: only the last entry of the active message
\* can change
C27_OnlyLastOfActive ==
  \A ev \in ToolResultEvents :
    LET s == handleStreamEvent(get, ev)
    IN \A id \in DOMAIN messages.byId :
         \A i \in DOMAIN messages.byId[id].toolUsage :
           s.messages.byId[id].toolUsage[i] # messages.byId[id].toolUsage[i] =>
             (id = streamingMessageId /\ i = Len(messages.byId[id].toolUsage))

\* C28: a stream event with content appends the content to the Message that
\* the streaming message id names, and creates none, when the id is set;
\* when it is null, the event creates one assistant Message with the
\* event's content and records its id as the streaming message id.  No
\* other Message changes.
C28_StreamAppendsOrCreates ==
  LET s == handleStreamEvent(get, E_stream("lo"))
  IN IF streamingMessageId # None
     THEN /\ s.messages.allIds = messages.allIds
          /\ streamingMessageId \in DOMAIN messages.byId
          /\ s.streamingMessageId = streamingMessageId
          /\ \A id \in DOMAIN messages.byId :
               s.messages.byId[id].content =
                 IF id = streamingMessageId
                 THEN messages.byId[id].content \o "lo"
                 ELSE messages.byId[id].content
     ELSE /\ Len(s.messages.allIds) = Len(messages.allIds) + 1
          /\ s.streamingMessageId \in DOMAIN s.messages.byId
          /\ s.streamingMessageId \notin DOMAIN messages.byId
          /\ s.messages.byId[s.streamingMessageId].content = "lo"
          /\ s.messages.byId[s.streamingMessageId].role = "assistant"
          /\ \A id \in DOMAIN messages.byId :
               s.messages.byId[id] = messages.byId[id]

\* C29: while isStreaming is false an agent_message_chunk event is
\* suppressed entirely: it leaves the agents (none created, no status or
\* activity text changed), the rounds and their AgentMessages, and the
\* Messages as they are.
C29_LateChunkSuppressed ==
  ~isStreaming =>
    \A ev \in ChunkEvents :
      LET s == handleStreamEvent(get, ev)
      IN /\ s.agents = agents
         /\ s.agentConversations = agentConversations
         /\ s.messages = messages
         /\ s.isStreaming = isStreaming

\* a chunk of a message has arrived after the end of the stream, and the
\* AgentMessage has the content of the first chunk only
C29_Witness ==
  /\ Len(trace) = 4
  /\ Follows(trace, LateChunk)
  /\ ~isStreaming
  /\ \E p \in copiesOf(agentConversations, "m1") :
       contentAt(agentConversations, p) = "lo"

NewAgents ==
  {[agentId |-> a, agentType |-> t, status |-> st, currentMessage |-> m,
    progress |-> p] :
     a \in AgentIds, t \in AgentTypes, st \in AgentStatus,
     m \in {None, "working"}, p \in {0, 50}}

\* C30: addAgent is create-if-absent.  With the id of an agent of the store
\* it returns that id and leaves the agent, the order of the agents and the
\* saved copy as they are; with a new id it appends one agent.  So the store
\* holds one AgentState for each id, whatever the events were.
C30_AddAgentIdempotent ==
  /\ \A agent \in NewAgents :
       LET s == addAgent(get, agent)
       IN /\ addAgentId(get, agent) = agent.agentId
          /\ IF agent.agentId \in DOMAIN agents.byId
             THEN s.agents = agents /\ s.sessionStorage = sessionStorage
             ELSE /\ s.agents.allIds = Append(agents.allIds, agent.agentId)
                  /\ \A a \in DOMAIN agents.byId :
                       s.agents.byId[a] = agents.byId[a]
  /\ Len(agents.allIds) = Cardinality(DOMAIN agents.byId)
  /\ \A i \in DOMAIN agents.allIds : agents.allIds[i] \in DOMAIN agents.byId
  /\ \A i, j \in DOMAIN agents.allIds :
       agents.allIds[i] = agents.allIds[j] => i = j

\* agent1 was created by an event and named by two later events, and the
\* store holds it once
C30_Witness ==
  /\ Len(trace) = 4
  /\ Follows(trace, StaleKnown)
  /\ agents.allIds = <<"agent1">>
  /\ DOMAIN agents.byId = {"agent1"}

(***************************************************************************)
(* Properties of the references between the stores.                        *)
(***************************************************************************)
authorsOf(rounds) ==
  UNION {{rounds[r].messages[i].agentId : i \in DOMAIN rounds[r].messages} :
           r \in DOMAIN rounds}

\* C31: no orphaned agent reference in the rounds.  In every reachable
\* state the agentId of every AgentMessage of every round names an
\* AgentState of the agent store.
C31_NoOrphanAuthor ==
  \A r \in DOMAIN agentConversations :
    \A i \in DOMAIN agentConversations[r].messages :
      agentConversations[r].messages[i].agentId \in DOMAIN agents.byId

\* the part of C31 that holds: an agent_message_chunk or agent_message event
\* that carries an agentType leaves the authors of the messages it adds in
\* the agent store
C31_TypedEventCreatesAuthor ==
  \A ev \in {e \in ChunkEvents \cup MessageEvents : e.agentType # None} :
    LET s == handleStreamEvent(get, ev)
    IN authorsOf(s.agentConversations) \ authorsOf(agentConversations)
         \subseteq DOMAIN s.agents.byId

(***************************************************************************)
(* Properties of the reconnect delay.                                      *)
(***************************************************************************)
\* a reconnect timer is set in this step
timerSet == service'.timerSeq > service.timerSeq

\* C32: the delay of the k-th attempt (k >= 1) is reconnectInterval times
\* min(k, 3): it is not less than the delay of the attempt before and never
\* exceeds three times the interval.
C32_DelayCapped ==
  [][timerSet =>
       LET k == service'.reconnectAttempts
           interval == service.reconnectInterval
       IN /\ k >= 1
          /\ service'.delay = interval * min(k, 3)
          /\ service'.delay <= 3 * interval
          /\ k > 1 => service'.delay >= interval * min(k - 1, 3)]_vars

\* the fifth attempt in a row waits three intervals
C32_Witness ==
  /\ service.reconnectAttempts = 5
  /\ service.reconnectTimer \in service.timers
  /\ service.delay = 3 * service.reconnectInterval

(***************************************************************************)
(* Properties of the delivery of frames.                                   *)
(***************************************************************************)
\* C33: a frame that parses and whose type is none of connected, pong,
\* subscribed, unsubscribed and error is given to the message observer once,
\* within the step that receives it, and the store after the step is the
\* store after handleStreamEvent of exactly that event; a frame of these
\* five types, or one that does not parse, is given to no message observer
\* and changes no message, agent or round.
C33_FramesDelivered ==
  [][service'.inbound # "" =>
       IF service'.inbound \in ControlTypes \cup {"error", "unparsable"}
       THEN /\ service'.delivered = ""
            /\ UNCHANGED <<messages, agents, agentConversations, isStreaming,
                           isProcessing, streamingMessageId, conversationId>>
       ELSE /\ service'.delivered = service'.inbound
            /\ \E data \in SessionFrames :
                 /\ data.parses
                 /\ data.message.type = service'.inbound
                 /\ get' = handleStreamEvent(get, data.message)]_vars

\* the second stream token has been delivered, and appended once
C33_Witness ==
  /\ service.inbound = "stream"
  /\ service.delivered = "stream"
  /\ \E m \in DOMAIN messages.byId : messages.byId[m].content = "lolo"

(***************************************************************************)
(* Properties of the normalized stores.                                    *)
(***************************************************************************)
Normalized(store) ==
  /\ \A i, j \in DOMAIN store.allIds : store.allIds[i] = store.allIds[j] => i = j
  /\ {store.allIds[i] : i \in DOMAIN store.allIds} = DOMAIN store.byId

\* C34: in the agent store and in the message store alike, allIds holds no
\* id twice and the set of its ids is the key set of byId, after every add,
\* update, append, remove, clear and restore.
C34_StoresNormalized == Normalized(agents) /\ Normalized(messages)

\* an agent was added and removed in conversation c1, whose saved copy is
\* empty, and added again in c2; the first message was deleted and a second
\* one added
C34_Witness ==
  /\ sessionStorage["c1"].agents = <<EmptyNormalized>>
  /\ conversationId = "c2"
  /\ agents.allIds = <<"agent1">>
  /\ messages.allIds = <<generateMessageId(2)>>

(***************************************************************************)
(* Properties of the connection as a single resource.                      *)
(***************************************************************************)
live(w) == {s \in DOMAIN w.sockets : w.sockets[s] \in {"connecting", "open"}}

\* C35: single connection.  At most one socket is connecting or open at a
\* time, at most one reconnect timer is pending, and every open socket is
\* the one the service refers to.
C35_SingleConnection ==
  /\ Cardinality(live(service)) <= 1
  /\ Cardinality(service.timers) <= 1
  /\ \A s \in DOMAIN service.sockets :
       service.sockets[s] = "open" => service.ws = s

\* the part of C35 that holds: connect() makes no socket while the socket
\* of the service is open
C35_ConnectKeepsOpenSocket ==
  isConnected(service) => connect(called(service)).sockets = service.sockets

(***************************************************************************)
(* Properties of what the connection observers and the heartbeat see.      *)
(***************************************************************************)
\* the connection observers are given the value v in this step: true by
\* the open event of a socket, false by the close event of a socket
reports(v) ==
  \E s \in 1..MaxSockets : IF v THEN opens(s) ELSE closes(s)

\* C36: whenever the connection observers are given a value, it is the
\* value of isConnected() at the end of that callback, and the heartbeat
\* timer is then active exactly when isConnected() - also when the close
\* event of an earlier socket comes after a newer socket has opened.
C36_ObserversAgree ==
  [][\A v \in BOOLEAN :
       reports(v) =>
         /\ isConnected(service') = v
         /\ service'.heartbeatTimer = v]_vars

\* the part of C36 that holds: the open and the close of the socket that
\* the service refers to
C36_CurrentSocketAgrees ==
  [][\A v \in BOOLEAN :
       (service.ws # 0
          /\ IF v THEN opens(service.ws) ELSE closes(service.ws)) =>
         /\ isConnected(service') = v
         /\ service'.heartbeatTimer = v]_vars

(***************************************************************************)
(* Properties of the registry of subscriptions.                            *)
(***************************************************************************)
\* the service after the next open of its connection: of the socket it
\* refers to if that is connecting, of the socket of a new connect() if not
nextOpen(w) ==
  LET w1 == IF w.ws # 0 /\ w.sockets[w.ws] = "connecting" THEN w
            ELSE connect(called(w))
  IN onopen(called(w1), w1.ws)
registered(w) == {w.subscriptions[i] : i \in DOMAIN w.subscriptions}

\* C37: the registry is updated before the frame is sent.  While the
\* connection is not open, subscribe(c) throws and sends nothing, yet c is in
\* the registry and a subscribe frame for c goes out when the connection
\* opens next; unsubscribe(c) throws and sends nothing, yet c has left the
\* registry and no subscribe frame for c goes out on that open.
C37_RegistryBeforeSend ==
  ~isConnected(service) =>
    \A c \in ConvIds :
      LET a == subscribe(called(service), c)
          d == unsubscribe(called(service), c)
          oa == nextOpen(a)
          od == nextOpen(d)
      IN /\ a.threw /\ a.outbound = service.outbound
         /\ c \in registered(a)
         /\ Frame("subscribe", c) \in framesOf(oa.outbound[oa.ws])
         /\ d.threw /\ d.outbound = service.outbound
         /\ c \notin registered(d)
         /\ Frame("subscribe", c) \notin framesOf(od.outbound[od.ws])

\* subscribe(c1) has thrown on a connection that is being made again after
\* a loss, and c1 is in the registry
C37_Witness ==
  /\ service.threw
  /\ service.ws > 1
  /\ service.sockets[service.ws] = "connecting"
  /\ service.sockets[1] = "closed"
  /\ service.timerSeq >= 1
  /\ "c1" \in registered(service)
  /\ service.outbound[service.ws] = <<>>

\* C38: disconnect() empties the registry and nulls the connection id, so
\* the connection that a later connect() opens carries no subscribe frame;
\* an open with an empty registry sends nothing; and no open, close or
\* inbound frame changes the registry: a connection that is lost keeps it,
\* and only subscribe fills it again.
C38_DisconnectForgets ==
  /\ [](LET d == disconnect(called(service))
            o == nextOpen(d)
        IN /\ d.subscriptions = <<>>
           /\ d.connectionId = None
           /\ o.outbound[o.ws] = <<>>)
  /\ [][\A s \in 1..MaxSockets :
          (opens(s) /\ service.subscriptions = <<>>) =>
            service'.outbound = service.outbound]_vars
  /\ [][((\E s \in 1..MaxSockets : opens(s) \/ closes(s))
           \/ service'.inbound # "") =>
          service'.subscriptions = service.subscriptions]_vars

\* a connection that carried a subscribe frame was disconnected, and
\* the connection made after it is open and has carried no frame
C38_Witness ==
  /\ isConnected(service)
  /\ service.subscriptions = <<>>
  /\ service.outbound[service.ws] = <<>>
  /\ \E s \in service.closedByDisconnect :
       Frame("subscribe", "c1") \in framesOf(service.outbound[s])

(***************************************************************************)
(* Properties of the stream across conversations.                          *)
(***************************************************************************)
\* the store after an init event and the first stream token after it
afterInit(c) == handleStreamEvent(get, E_init(c))
firstToken(c) == handleStreamEvent(afterInit(c), E_stream("lo"))

\* the token has made a new Message and changed none of those the store
\* held when the init was handled
createsMessage(c) ==
  LET s1 == afterInit(c)
      s2 == firstToken(c)
  IN /\ Len(s2.messages.allIds) = Len(s1.messages.allIds) + 1
     /\ s2.streamingMessageId \notin DOMAIN s1.messages.byId
     /\ \A m \in DOMAIN s1.messages.byId :
          s2.messages.byId[m] = s1.messages.byId[m]

\* C39: the first stream token after an init creates a new Message and is
\* appended to no Message created before the init, whatever came before
\* the init.
C39_InitSeparatesStreams == \A c \in ConvIds : createsMessage(c)

\* the part of C39 that holds: an init that finds no streaming message
C39_AfterResetCreates ==
  streamingMessageId = None => \A c \in ConvIds : createsMessage(c)

(***************************************************************************)
(* Properties of the cancellation.                                         *)
(***************************************************************************)
afterCancelled == handleStreamEvent(get, E_cancelled)

\* C40: cancelled changes only the agents that are not terminal.  An agent
\* that is complete or error keeps its status, its activity text and its
\* end timestamp; an agent that is idle, thinking or responding ends with
\* status error and the activity text "Cancelled".
C40_CancelledSparesTerminal ==
  \A a \in DOMAIN agents.byId :
    LET old == agents.byId[a]
        new == afterCancelled.agents.byId[a]
    IN IF old.status \in {"complete", "error"}
       THEN /\ new.status = old.status
            /\ new.currentMessage = old.currentMessage
            /\ new.endTime = old.endTime
       ELSE new.status = "error" /\ new.currentMessage = "Cancelled"

\* the part of C40 that holds: the agents that are complete are kept as
\* they are, and all others end with status error and the text "Cancelled"
C40_CancelledSparesComplete ==
  \A a \in DOMAIN agents.byId :
    LET old == agents.byId[a]
        new == afterCancelled.agents.byId[a]
    IN IF old.status = "complete" THEN new = old
       ELSE new.status = "error" /\ new.currentMessage = "Cancelled"

====
